---------------------------- MODULE Spec2Model ----------------------------
(***************************************************************************)
(* A model of the provisioning core of the OCI MCP server:                 *)
(*   src/src/core/provisioner.py  ResourceProvisioner                      *)
(*   src/src/api/router.py        the /provision and /status endpoints     *)
(*   src/src/api/schemas.py       ResourceType, ResourceStatus             *)
(*                                                                         *)
(* Three specifications share the variables below:                         *)
(*   SortSpec  applies _sort_resources_by_dependencies to every batch of   *)
(*             a bounded universe;                                         *)
(*   Spec      one long-lived ResourceProvisioner: provision_resources     *)
(*             runs statement by statement, get_provisioning_status may    *)
(*             read the store between any two statements;                  *)
(*   ApiSpec   the router, which builds a new ResourceProvisioner in every *)
(*             endpoint call.                                              *)
(*                                                                         *)
(* Not modelled: the timestamps of an entry (started_at,                   *)
(* estimated_completion), the details/access_info maps of a provisioned    *)
(* resource and the random part of an OCID; no claim reads them.           *)
(***************************************************************************)
EXTENDS Naturals, Sequences, FiniteSets, TLC

VARIABLES
    hash_seed,              \* iteration order of a Python set of str in this process
    provisioning_requests,  \* ResourceProvisioner.provisioning_requests
    calls,                  \* the frame of provision_resources, per calling thread
    submitted,              \* resources handed to provision_resources so far
    status_result,          \* what get_provisioning_status returned last
    sort_input,             \* SortSpec: the argument of _sort_resources_by_dependencies
    sort_output,            \* SortSpec: its outcome
    api_provisioned,        \* ApiSpec: request id -> the list POST /provision answered last
    api_response,           \* ApiSpec: the last endpoint response
    conversation,           \* AnalyzeSpec: the conversation_context handed to the analyzer
    extracted_info,         \* the dict _extract_information returned
    requirements,           \* the dict _determine_requirements returned
    recommendations         \* the list _generate_recommendations returned

\* the variables of the analyzer
analyzer_vars == <<conversation, extracted_info, requirements, recommendations>>

vars == <<hash_seed, provisioning_requests, calls, submitted, status_result,
          sort_input, sort_output, api_provisioned, api_response, analyzer_vars>>

---------------------------------------------------------------------------
(* Bounds of the model.                                                    *)

\* longest batch handed to the orderer in SortSpec
MaxBatch == 3

\* resources handed to one provisioner, over all its provision_resources
\* calls, in one behaviour of Spec
MaxSubmitted == 3

\* longest batch posted to the provision endpoint in ApiSpec
MaxProvBatch == 2

\* largest storage amount, in GB, among the extracted signals of ResolveSpec
MaxStorageGb == 120

\* longest conversation handed to the analyzer in AnalyzeSpec
MaxMessages == 2

---------------------------------------------------------------------------
(* Values.                                                                 *)

Names == {"A", "B", "C"}

RequestIds == {"r1", "r2"}

\* schemas.ResourceType
ResourceType == {"compute", "network", "database", "storage", "load_balancer",
                 "kubernetes"}

\* the kinds _provision_resource dispatches to a handler
HandledTypes == {"compute", "network", "database", "storage", "load_balancer"}

\* schemas.ResourceStatus.ACTIVE
ACTIVE == "active"

\* str(e) of the ValueError of _provision_resource
UnsupportedError(resource_type) == <<"Unsupported resource type", resource_type>>

\* str(e) of an exception escaping a kind-specific handler
BackendError == <<"backend error">>

\* schemas.OCIResource; dependencies (Optional[List[str]]) is kept as the set
\* of its members: the orderer only tests them for membership and adds them
\* to a set, and None and [] are both falsy.
OCIResource(name, resource_type, dependencies) ==
    [name |-> name, resource_type |-> resource_type, dependencies |-> dependencies]

RECURSIVE SeqsUpTo(_, _)
\* all sequences over S of length at most n
SeqsUpTo(S, n) ==
    IF n = 0 THEN {<<>>}
    ELSE LET shorter == SeqsUpTo(S, n - 1)
         IN  shorter \cup {Append(s, x) : s \in {t \in shorter : Len(t) = n - 1}, x \in S}

Range(s) == {s[k] : k \in 1..Len(s)}

\* all orders in which a set of str can be iterated
IterationOrders(S) ==
    {s \in [1..Cardinality(S) -> S] : Range(s) = S}

---------------------------------------------------------------------------
(* analyzer.py: the resolvers and the recommendation generator.            *)
(* A Python None is the string None where the other values are strings,    *)
(* NoneAmount where they are integers and NoneDict where they are dicts.   *)

None == "None"

\* extracted_info["storage_requirements"]: None, or Amount(n) for the int n
NoneAmount == <<>>

Amount(n) == <<n>>

\* requirements["database"] when _determine_database_requirements returns None
NoneDict == [none |-> TRUE]

Max(a, b) == IF a >= b THEN a ELSE b

\* lines 59-70: the dict _extract_information starts from
EmptyInfo ==
    [website_type |-> None, expected_traffic |-> None, database_needs |-> None,
     storage_requirements |-> NoneAmount, performance_requirements |-> None,
     budget_constraints |-> NoneAmount, security_requirements |-> None,
     availability_requirements |-> None, scaling_needs |-> None,
     region_preferences |-> None]

\* the mutant of determine_compute_requirements in which high traffic
\* overwrites the size with the numbers of the database resolver
determine_compute_requirements_overwriting(info) ==
    LET typed ==
            IF info.website_type = "static"
            THEN [instance_count |-> 1, shape |-> "VM.Standard.E2.1.Micro",
                  ocpus |-> 1, memory_in_gbs |-> 1]
            ELSE IF info.website_type = "ecommerce"
            THEN [instance_count |-> 1, shape |-> "VM.Standard.E4.Flex",
                  ocpus |-> 2, memory_in_gbs |-> 16]
            ELSE [instance_count |-> 1, shape |-> "VM.Standard.E4.Flex",
                  ocpus |-> 1, memory_in_gbs |-> 8]
        sized ==
            IF info.expected_traffic = "high"
            THEN [typed EXCEPT !.instance_count = 2, !.ocpus = 2, !.memory_in_gbs = 2]
            ELSE typed
    IN  IF info.scaling_needs = "required"
        THEN [autoscaling |-> TRUE, min_instances |-> sized.instance_count,
              max_instances |-> sized.instance_count * 3] @@ sized
        ELSE sized

\* the mutant of determine_compute_requirements that always sets the
\* autoscaling bounds, from the instance count before the traffic adjustment
determine_compute_requirements_always_scaling(info) ==
    LET typed ==
            IF info.website_type = "static"
            THEN [instance_count |-> 1, shape |-> "VM.Standard.E2.1.Micro",
                  ocpus |-> 1, memory_in_gbs |-> 1]
            ELSE IF info.website_type = "ecommerce"
            THEN [instance_count |-> 1, shape |-> "VM.Standard.E4.Flex",
                  ocpus |-> 2, memory_in_gbs |-> 16]
            ELSE [instance_count |-> 1, shape |-> "VM.Standard.E4.Flex",
                  ocpus |-> 1, memory_in_gbs |-> 8]
        sized ==
            IF info.expected_traffic = "high"
            THEN [typed EXCEPT !.instance_count = 2, !.ocpus = Max(@, 4),
                               !.memory_in_gbs = Max(@, 32)]
            ELSE typed
    IN  [autoscaling |-> TRUE, min_instances |-> typed.instance_count,
         max_instances |-> typed.instance_count * 3] @@ sized

\* lines 169-200
determine_compute_requirements(info) ==
    LET compute_req ==
            [instance_count |-> 1, shape |-> "VM.Standard.E4.Flex",
             ocpus |-> 1, memory_in_gbs |-> 8]
        \* lines 179-186
        typed ==
            IF info.website_type = "static"
            THEN [compute_req EXCEPT !.shape = "VM.Standard.E2.1.Micro",
                                     !.ocpus = 1, !.memory_in_gbs = 1]
            ELSE IF info.website_type = "ecommerce"
            THEN [compute_req EXCEPT !.shape = "VM.Standard.E4.Flex",
                                     !.ocpus = 2, !.memory_in_gbs = 16]
            ELSE compute_req
        \* lines 189-192
        sized ==
            IF info.expected_traffic = "high"
            THEN [typed EXCEPT !.instance_count = 2, !.ocpus = Max(@, 4),
                               !.memory_in_gbs = Max(@, 32)]
            ELSE typed
    \* lines 195-198
    IN  IF info.scaling_needs = "required"
        THEN [autoscaling |-> TRUE, min_instances |-> sized.instance_count,
              max_instances |-> sized.instance_count * 3] @@ sized
        ELSE sized

\* lines 219-227: the HTTP and HTTPS rules, then the SSH rule appended
security_list_rules ==
    Append(<<[protocol |-> "6", port |-> 80, source |-> "0.0.0.0/0"],
             [protocol |-> "6", port |-> 443, source |-> "0.0.0.0/0"]>>,
           [protocol |-> "6", port |-> 22, source |-> "0.0.0.0/0"])

\* the mutant of determine_network_requirements that attaches the load
\* balancer for medium traffic as well
determine_network_requirements_medium(info) ==
    LET network_req ==
            [vcn_cidr |-> "10.0.0.0/16", subnet_cidr |-> "10.0.0.0/24",
             load_balancer |-> FALSE]
        compute_req == determine_compute_requirements(info)
        balanced ==
            IF info.expected_traffic \in {"high", "medium"}
               \/ compute_req.instance_count > 1
            THEN [load_balancer_shape |-> "flexible", load_balancer_min_shape |-> 10,
                  load_balancer_max_shape |-> 100]
                 @@ [network_req EXCEPT !.load_balancer = TRUE]
            ELSE network_req
    IN  [security_list_rules |-> security_list_rules] @@ balanced

\* lines 202-229
determine_network_requirements(info) ==
    LET network_req ==
            [vcn_cidr |-> "10.0.0.0/16", subnet_cidr |-> "10.0.0.0/24",
             load_balancer |-> FALSE]
        \* line 211
        compute_req == determine_compute_requirements(info)
        \* lines 212-216
        balanced ==
            IF info.expected_traffic = "high" \/ compute_req.instance_count > 1
            THEN [load_balancer_shape |-> "flexible", load_balancer_min_shape |-> 10,
                  load_balancer_max_shape |-> 100]
                 @@ [network_req EXCEPT !.load_balancer = TRUE]
            ELSE network_req
    IN  [security_list_rules |-> security_list_rules] @@ balanced

\* the mutant of determine_database_requirements that returns None for the
\* kind general as well
determine_database_requirements_no_general(info) ==
    IF info.database_needs \in {None, "general"} THEN NoneDict
    ELSE LET database_req ==
                 [type |-> "autonomous", workload_type |-> "OLTP",
                  storage_in_tbs |-> 1, cpu_core_count |-> 1]
             typed ==
                 IF info.database_needs = "relational"
                 THEN [db_name |-> "OCIDB"] @@ [database_req EXCEPT !.type = "autonomous"]
                 ELSE [table_name |-> "OCITable"] @@ [database_req EXCEPT !.type = "nosql"]
         IN  IF info.expected_traffic = "high"
             THEN [typed EXCEPT !.cpu_core_count = 2, !.storage_in_tbs = 2]
             ELSE typed

\* the mutant of determine_database_requirements that plans a general
\* database when no database was asked for
determine_database_requirements_always(info) ==
    LET database_req ==
            [type |-> "autonomous", workload_type |-> "OLTP",
             storage_in_tbs |-> 1, cpu_core_count |-> 1]
        typed ==
            IF info.database_needs = "relational"
            THEN [db_name |-> "OCIDB"] @@ [database_req EXCEPT !.type = "autonomous"]
            ELSE IF info.database_needs = "nosql"
            THEN [table_name |-> "OCITable"] @@ [database_req EXCEPT !.type = "nosql"]
            ELSE database_req
    IN  IF info.expected_traffic = "high"
        THEN [typed EXCEPT !.cpu_core_count = 2, !.storage_in_tbs = 2]
        ELSE typed

\* lines 231-256
determine_database_requirements(info) ==
    \* lines 233-234: not None
    IF info.database_needs = None THEN NoneDict
    ELSE LET database_req ==
                 [type |-> "autonomous", workload_type |-> "OLTP",
                  storage_in_tbs |-> 1, cpu_core_count |-> 1]
             \* lines 244-249
             typed ==
                 IF info.database_needs = "relational"
                 THEN [db_name |-> "OCIDB"] @@ [database_req EXCEPT !.type = "autonomous"]
                 ELSE IF info.database_needs = "nosql"
                 THEN [table_name |-> "OCITable"] @@ [database_req EXCEPT !.type = "nosql"]
                 ELSE database_req
         \* lines 252-254
         IN  IF info.expected_traffic = "high"
             THEN [typed EXCEPT !.cpu_core_count = 2, !.storage_in_tbs = 2]
             ELSE typed

\* the truth value of an Optional[int]: None and 0 are false
Truthy(amount) == amount # NoneAmount /\ amount[1] # 0

\* the mutant of determine_storage_requirements that applies the requested
\* amount after the website type
determine_storage_requirements_amount_last(info) ==
    LET typed ==
            IF info.website_type = "static" THEN 50
            ELSE IF info.website_type \in {"ecommerce", "dynamic"} THEN 100
            ELSE 50
    IN  [block_volume_size_in_gbs |->
             IF Truthy(info.storage_requirements)
             THEN Max(typed, info.storage_requirements[1]) ELSE typed,
         object_storage |-> TRUE]

\* lines 258-279
determine_storage_requirements(info) ==
    LET storage_req == [block_volume_size_in_gbs |-> 50, object_storage |-> TRUE]
        \* lines 266-269
        requested ==
            IF Truthy(info.storage_requirements)
            THEN [storage_req EXCEPT
                     !.block_volume_size_in_gbs = Max(50, info.storage_requirements[1])]
            ELSE storage_req
    \* lines 272-277
    IN  IF info.website_type = "static"
        THEN [requested EXCEPT !.block_volume_size_in_gbs = 50]
        ELSE IF info.website_type \in {"ecommerce", "dynamic"}
        THEN [requested EXCEPT !.block_volume_size_in_gbs = Max(@, 100)]
        ELSE requested

\* lines 149-167
determine_requirements(info) ==
    [compute  |-> determine_compute_requirements(info),
     network  |-> determine_network_requirements(info),
     database |-> determine_database_requirements(info),
     storage  |-> determine_storage_requirements(info)]

\* schemas.py 51-58 with the specifications; description and estimated_cost
\* are left out
Recommendation(resource_type, name, specifications, dependencies) ==
    [resource_type |-> resource_type, name |-> name,
     specifications |-> specifications, dependencies |-> dependencies]

\* the mutant of generate_recommendations in which the storage volume comes
\* first, before the WebServer it depends on
generate_recommendations_storage_first(reqs) ==
    LET storage_resource ==
            Recommendation("storage", "WebsiteStorage",
                [size_in_gbs |-> reqs.storage.block_volume_size_in_gbs,
                 vpus_per_gb |-> 10],
                {"WebServer"})
        compute_resource ==
            Recommendation("compute", "WebServer",
                [shape |-> reqs.compute.shape, ocpus |-> reqs.compute.ocpus,
                 memory_in_gbs |-> reqs.compute.memory_in_gbs,
                 instance_count |-> reqs.compute.instance_count,
                 image_id |-> "Oracle-Linux-8.6-2022.05.31-0"],
                {})
        network_resource ==
            Recommendation("network", "WebsiteVCN",
                [vcn_cidr |-> reqs.network.vcn_cidr,
                 subnet_cidr |-> reqs.network.subnet_cidr,
                 security_list_rules |-> reqs.network.security_list_rules],
                {})
    IN  <<storage_resource, compute_resource, network_resource>>

\* lines 281-406
generate_recommendations(reqs) ==
    LET \* lines 294-311
        compute_req == reqs.compute
        compute_resource ==
            Recommendation("compute", "WebServer",
                [shape |-> compute_req.shape, ocpus |-> compute_req.ocpus,
                 memory_in_gbs |-> compute_req.memory_in_gbs,
                 instance_count |-> compute_req.instance_count,
                 image_id |-> "Oracle-Linux-8.6-2022.05.31-0"],
                {})
        \* lines 314-329
        network_req == reqs.network
        network_resource ==
            Recommendation("network", "WebsiteVCN",
                [vcn_cidr |-> network_req.vcn_cidr,
                 subnet_cidr |-> network_req.subnet_cidr,
                 security_list_rules |-> network_req.security_list_rules],
                {})
        \* lines 332-348
        lb ==
            IF network_req.load_balancer
            THEN <<Recommendation("load_balancer", "WebsiteLoadBalancer",
                      [shape |-> network_req.load_balancer_shape,
                       min_bandwidth_mbps |-> network_req.load_balancer_min_shape,
                       max_bandwidth_mbps |-> network_req.load_balancer_max_shape],
                      {"WebsiteVCN"})>>
            ELSE <<>>
        \* lines 351-369
        db_req == reqs.database
        db ==
            IF db_req # NoneDict
            THEN <<Recommendation("database", "WebsiteDB",
                      [type |-> db_req.type, workload_type |-> db_req.workload_type,
                       storage_in_tbs |-> db_req.storage_in_tbs,
                       cpu_core_count |-> db_req.cpu_core_count],
                      {"WebsiteVCN"})>>
            ELSE <<>>
        \* lines 372-387
        storage_req == reqs.storage
        storage_resource ==
            Recommendation("storage", "WebsiteStorage",
                [size_in_gbs |-> storage_req.block_volume_size_in_gbs,
                 vpus_per_gb |-> 10],
                {"WebServer"})
        \* lines 390-404
        bucket ==
            IF storage_req.object_storage
            THEN <<Recommendation("storage", "WebsiteBucket",
                      [storage_tier |-> "Standard", auto_tiering |-> TRUE], {})>>
            ELSE <<>>
    IN  <<compute_resource, network_resource>> \o lb \o db
            \o <<storage_resource>> \o bucket

---------------------------------------------------------------------------
(* _extract_information, analyzer.py 48-147. A text is a sequence of       *)
(* characters. Every pattern of the function is a set of alternatives, an  *)
(* alternative being the literal pieces that \s+ separates; re.search with *)
(* re.IGNORECASE finds a pattern when one alternative occurs somewhere in  *)
(* the lower-cased text.                                                   *)

Digits == <<"0", "1", "2", "3", "4", "5", "6", "7", "8", "9">>

IsDigit(c) == c \in Range(Digits)

DigitValue(c) == (CHOOSE k \in 1..Len(Digits) : Digits[k] = c) - 1

\* re.IGNORECASE and str.lower on the letters
UpperToLower ==
    [A |-> "a", B |-> "b", C |-> "c", D |-> "d", E |-> "e", F |-> "f",
     G |-> "g", H |-> "h", I |-> "i", J |-> "j", K |-> "k", L |-> "l",
     M |-> "m", N |-> "n", O |-> "o", P |-> "p", Q |-> "q", R |-> "r",
     S |-> "s", T |-> "t", U |-> "u", V |-> "v", W |-> "w", X |-> "x",
     Y |-> "y", Z |-> "z"]

Lower(c) == IF c \in DOMAIN UpperToLower THEN UpperToLower[c] ELSE c

LowerText(text) == [k \in 1..Len(text) |-> Lower(text[k])]

\* \s: the space is the only white space of the contents modelled
IsSpace(c) == c = " "

RECURSIVE Join(_)
\* line 73: " ".join(contents)
Join(contents) ==
    IF contents = <<>> THEN <<>>
    ELSE IF Len(contents) = 1 THEN contents[1]
    ELSE contents[1] \o <<" ">> \o Join(Tail(contents))

\* the literal lit stands in the text at position p
LiteralAt(text, p, lit) ==
    /\ p + Len(lit) - 1 <= Len(text)
    /\ \A k \in 1..Len(lit) : text[p + k - 1] = lit[k]

RECURSIVE SkipSpaces(_, _)
\* the first position from p on that holds no white space
SkipSpaces(text, p) ==
    IF p <= Len(text) /\ IsSpace(text[p]) THEN SkipSpaces(text, p + 1) ELSE p

RECURSIVE SkipDigits(_, _)
\* the first position from p on that holds no digit: \d+ is greedy
SkipDigits(text, p) ==
    IF p <= Len(text) /\ IsDigit(text[p]) THEN SkipDigits(text, p + 1) ELSE p

RECURSIVE PiecesAt(_, _, _)
\* the position after a match of piece \s+ piece ... starting at p, 0 when
\* there is none; no piece starts with white space, so \s+ takes the whole run
PiecesAt(text, p, pieces) ==
    IF ~LiteralAt(text, p, pieces[1]) THEN 0
    ELSE LET q == p + Len(pieces[1])
         IN  IF Len(pieces) = 1 THEN q
             ELSE IF q <= Len(text) /\ IsSpace(text[q])
             THEN PiecesAt(text, SkipSpaces(text, q), Tail(pieces))
             ELSE 0

\* re.search(pattern, full_text, re.IGNORECASE) is not None, for low the
\* lower-cased full_text: the patterns are written in lower case
Search(pattern, low) ==
    \E p \in 1..Len(low), alternative \in pattern :
        PiecesAt(low, p, alternative) # 0

RECURSIVE ParseInt(_)
\* int(digits)
ParseInt(digits) ==
    IF digits = <<>> THEN 0
    ELSE 10 * ParseInt(SubSeq(digits, 1, Len(digits) - 1))
         + DigitValue(digits[Len(digits)])

\* line 77: (static|simple)\s+(website|site|web\s+page)
pattern_static ==
    {<< <<"s", "t", "a", "t", "i", "c">>, <<"w", "e", "b", "s", "i", "t", "e">> >>,
     << <<"s", "t", "a", "t", "i", "c">>, <<"s", "i", "t", "e">> >>,
     << <<"s", "t", "a", "t", "i", "c">>, <<"w", "e", "b">>, <<"p", "a", "g", "e">> >>,
     << <<"s", "i", "m", "p", "l", "e">>, <<"w", "e", "b", "s", "i", "t", "e">> >>,
     << <<"s", "i", "m", "p", "l", "e">>, <<"s", "i", "t", "e">> >>,
     << <<"s", "i", "m", "p", "l", "e">>, <<"w", "e", "b">>, <<"p", "a", "g", "e">> >>}

\* line 78: (dynamic|interactive)\s+(website|site|web\s+application)
pattern_dynamic ==
    {<< <<"d", "y", "n", "a", "m", "i", "c">>, <<"w", "e", "b", "s", "i", "t", "e">> >>,
     << <<"d", "y", "n", "a", "m", "i", "c">>, <<"s", "i", "t", "e">> >>,
     << <<"d", "y", "n", "a", "m", "i", "c">>, <<"w", "e", "b">>, <<"a", "p", "p", "l", "i", "c", "a", "t", "i", "o", "n">> >>,
     << <<"i", "n", "t", "e", "r", "a", "c", "t", "i", "v", "e">>, <<"w", "e", "b", "s", "i", "t", "e">> >>,
     << <<"i", "n", "t", "e", "r", "a", "c", "t", "i", "v", "e">>, <<"s", "i", "t", "e">> >>,
     << <<"i", "n", "t", "e", "r", "a", "c", "t", "i", "v", "e">>, <<"w", "e", "b">>, <<"a", "p", "p", "l", "i", "c", "a", "t", "i", "o", "n">> >>}

\* line 79: (e-commerce|ecommerce|online\s+store|shop)
pattern_ecommerce ==
    {<< <<"e", "-", "c", "o", "m", "m", "e", "r", "c", "e">> >>,
     << <<"e", "c", "o", "m", "m", "e", "r", "c", "e">> >>,
     << <<"o", "n", "l", "i", "n", "e">>, <<"s", "t", "o", "r", "e">> >>,
     << <<"s", "h", "o", "p">> >>}

\* line 80: (blog|content\s+management|cms)
pattern_blog ==
    {<< <<"b", "l", "o", "g">> >>,
     << <<"c", "o", "n", "t", "e", "n", "t">>, <<"m", "a", "n", "a", "g", "e", "m", "e", "n", "t">> >>,
     << <<"c", "m", "s">> >>}

\* line 81: (api|backend|service)
pattern_api ==
    {<< <<"a", "p", "i">> >>,
     << <<"b", "a", "c", "k", "e", "n", "d">> >>,
     << <<"s", "e", "r", "v", "i", "c", "e">> >>}

\* line 91: (low|small|minimal)\s+(traffic|visitors|users)
pattern_low ==
    {<< <<"l", "o", "w">>, <<"t", "r", "a", "f", "f", "i", "c">> >>,
     << <<"l", "o", "w">>, <<"v", "i", "s", "i", "t", "o", "r", "s">> >>,
     << <<"l", "o", "w">>, <<"u", "s", "e", "r", "s">> >>,
     << <<"s", "m", "a", "l", "l">>, <<"t", "r", "a", "f", "f", "i", "c">> >>,
     << <<"s", "m", "a", "l", "l">>, <<"v", "i", "s", "i", "t", "o", "r", "s">> >>,
     << <<"s", "m", "a", "l", "l">>, <<"u", "s", "e", "r", "s">> >>,
     << <<"m", "i", "n", "i", "m", "a", "l">>, <<"t", "r", "a", "f", "f", "i", "c">> >>,
     << <<"m", "i", "n", "i", "m", "a", "l">>, <<"v", "i", "s", "i", "t", "o", "r", "s">> >>,
     << <<"m", "i", "n", "i", "m", "a", "l">>, <<"u", "s", "e", "r", "s">> >>}

\* line 92: (medium|moderate)\s+(traffic|visitors|users)
pattern_medium ==
    {<< <<"m", "e", "d", "i", "u", "m">>, <<"t", "r", "a", "f", "f", "i", "c">> >>,
     << <<"m", "e", "d", "i", "u", "m">>, <<"v", "i", "s", "i", "t", "o", "r", "s">> >>,
     << <<"m", "e", "d", "i", "u", "m">>, <<"u", "s", "e", "r", "s">> >>,
     << <<"m", "o", "d", "e", "r", "a", "t", "e">>, <<"t", "r", "a", "f", "f", "i", "c">> >>,
     << <<"m", "o", "d", "e", "r", "a", "t", "e">>, <<"v", "i", "s", "i", "t", "o", "r", "s">> >>,
     << <<"m", "o", "d", "e", "r", "a", "t", "e">>, <<"u", "s", "e", "r", "s">> >>}

\* line 93: (high|large|heavy|substantial)\s+(traffic|visitors|users)
pattern_high ==
    {<< <<"h", "i", "g", "h">>, <<"t", "r", "a", "f", "f", "i", "c">> >>,
     << <<"h", "i", "g", "h">>, <<"v", "i", "s", "i", "t", "o", "r", "s">> >>,
     << <<"h", "i", "g", "h">>, <<"u", "s", "e", "r", "s">> >>,
     << <<"l", "a", "r", "g", "e">>, <<"t", "r", "a", "f", "f", "i", "c">> >>,
     << <<"l", "a", "r", "g", "e">>, <<"v", "i", "s", "i", "t", "o", "r", "s">> >>,
     << <<"l", "a", "r", "g", "e">>, <<"u", "s", "e", "r", "s">> >>,
     << <<"h", "e", "a", "v", "y">>, <<"t", "r", "a", "f", "f", "i", "c">> >>,
     << <<"h", "e", "a", "v", "y">>, <<"v", "i", "s", "i", "t", "o", "r", "s">> >>,
     << <<"h", "e", "a", "v", "y">>, <<"u", "s", "e", "r", "s">> >>,
     << <<"s", "u", "b", "s", "t", "a", "n", "t", "i", "a", "l">>, <<"t", "r", "a", "f", "f", "i", "c">> >>,
     << <<"s", "u", "b", "s", "t", "a", "n", "t", "i", "a", "l">>, <<"v", "i", "s", "i", "t", "o", "r", "s">> >>,
     << <<"s", "u", "b", "s", "t", "a", "n", "t", "i", "a", "l">>, <<"u", "s", "e", "r", "s">> >>}

\* line 102: (database|db|data\s+storage)
pattern_database ==
    {<< <<"d", "a", "t", "a", "b", "a", "s", "e">> >>,
     << <<"d", "b">> >>,
     << <<"d", "a", "t", "a">>, <<"s", "t", "o", "r", "a", "g", "e">> >>}

\* line 103: (sql|relational|mysql|postgresql)
pattern_relational ==
    {<< <<"s", "q", "l">> >>,
     << <<"r", "e", "l", "a", "t", "i", "o", "n", "a", "l">> >>,
     << <<"m", "y", "s", "q", "l">> >>,
     << <<"p", "o", "s", "t", "g", "r", "e", "s", "q", "l">> >>}

\* line 105: (nosql|mongodb|document|key-value)
pattern_nosql ==
    {<< <<"n", "o", "s", "q", "l">> >>,
     << <<"m", "o", "n", "g", "o", "d", "b">> >>,
     << <<"d", "o", "c", "u", "m", "e", "n", "t">> >>,
     << <<"k", "e", "y", "-", "v", "a", "l", "u", "e">> >>}

\* line 111: (gb|tb|gigabytes|terabytes), as single pieces
storage_units ==
    {<< <<"g", "b">> >>,
     << <<"t", "b">> >>,
     << <<"g", "i", "g", "a", "b", "y", "t", "e", "s">> >>,
     << <<"t", "e", "r", "a", "b", "y", "t", "e", "s">> >>}

\* line 122: budget\s+of, the part of the pattern before \s+\$?(\d+)
pattern_budget_of ==
    {<< <<"b", "u", "d", "g", "e", "t">>, <<"o", "f">> >>}

\* line 127: (high\s+availability|ha|always\s+available|99\.9)
pattern_availability ==
    {<< <<"h", "i", "g", "h">>, <<"a", "v", "a", "i", "l", "a", "b", "i", "l", "i", "t", "y">> >>,
     << <<"h", "a">> >>,
     << <<"a", "l", "w", "a", "y", "s">>, <<"a", "v", "a", "i", "l", "a", "b", "l", "e">> >>,
     << <<"9", "9", ".", "9">> >>}

\* line 131: (scal(e|ing|able)|grow|expand)
pattern_scaling ==
    {<< <<"s", "c", "a", "l", "e">> >>,
     << <<"s", "c", "a", "l", "i", "n", "g">> >>,
     << <<"s", "c", "a", "l", "a", "b", "l", "e">> >>,
     << <<"g", "r", "o", "w">> >>,
     << <<"e", "x", "p", "a", "n", "d">> >>}

\* line 136: (us|united\s+states|america)
pattern_us ==
    {<< <<"u", "s">> >>,
     << <<"u", "n", "i", "t", "e", "d">>, <<"s", "t", "a", "t", "e", "s">> >>,
     << <<"a", "m", "e", "r", "i", "c", "a">> >>}

\* line 137: (europe|eu|european)
pattern_eu ==
    {<< <<"e", "u", "r", "o", "p", "e">> >>,
     << <<"e", "u">> >>,
     << <<"e", "u", "r", "o", "p", "e", "a", "n">> >>}

\* line 138: (asia|apac|asia\s+pacific)
pattern_asia ==
    {<< <<"a", "s", "i", "a">> >>,
     << <<"a", "p", "a", "c">> >>,
     << <<"a", "s", "i", "a">>, <<"p", "a", "c", "i", "f", "i", "c">> >>}

\* lines 76-82
website_patterns ==
    <<[pattern |-> pattern_static, value |-> "static"],
      [pattern |-> pattern_dynamic, value |-> "dynamic"],
      [pattern |-> pattern_ecommerce, value |-> "ecommerce"],
      [pattern |-> pattern_blog, value |-> "blog"],
      [pattern |-> pattern_api, value |-> "api"]>>

\* lines 90-94
traffic_patterns ==
    <<[pattern |-> pattern_low, value |-> "low"],
      [pattern |-> pattern_medium, value |-> "medium"],
      [pattern |-> pattern_high, value |-> "high"]>>

\* lines 135-139
region_patterns ==
    <<[pattern |-> pattern_us, value |-> "us"],
      [pattern |-> pattern_eu, value |-> "eu"],
      [pattern |-> pattern_asia, value |-> "asia"]>>

\* the mutant of first_match in which the last pattern of the list that is
\* found wins
first_match_last(patterns, low) ==
    LET found == {k \in 1..Len(patterns) : Search(patterns[k].pattern, low)}
    IN  IF found = {} THEN None
        ELSE patterns[CHOOSE k \in found : \A j \in found : j <= k].value

RECURSIVE first_match(_, _)
\* lines 84-87, 96-99, 141-144: the value of the first pattern of the list
\* that is found; None when none is
first_match(patterns, low) ==
    IF patterns = <<>> THEN None
    ELSE IF Search(patterns[1].pattern, low) THEN patterns[1].value
    ELSE first_match(Tail(patterns), low)

\* lines 102-108
database_needs(low) ==
    IF Search(pattern_database, low)
    THEN IF Search(pattern_relational, low) THEN "relational"
         ELSE IF Search(pattern_nosql, low) THEN "nosql"
         ELSE "general"
    ELSE None

\* line 111: (\d+)\s*(gb|tb|gigabytes|terabytes) matches from p: the digits
\* from p to the end of their run, any white space, then a unit
StorageUnitAt(low, p) ==
    LET u == SkipSpaces(low, SkipDigits(low, p))
    IN  {unit \in storage_units : LiteralAt(low, u, unit[1])}

\* lines 111-119
storage_requirements(low) ==
    LET starts == {p \in 1..Len(low) :
                     IsDigit(low[p]) /\ StorageUnitAt(low, p) # {}}
    IN  IF starts = {} THEN NoneAmount
        ELSE LET p      == CHOOSE s \in starts : \A o \in starts : s <= o
                 amount == ParseInt(SubSeq(low, p, SkipDigits(low, p) - 1))
                 unit   == CHOOSE un \in StorageUnitAt(low, p) : TRUE
             IN  IF unit[1] \in {<<"t", "b">>,
                                 <<"t", "e", "r", "a", "b", "y", "t", "e", "s">>}
                 THEN Amount(amount * 1024) ELSE Amount(amount)

\* line 122: budget\s+of\s+\$?(\d+) matches from p: the position of its
\* digits, 0 when it does not match
BudgetDigitsAt(low, p) ==
    LET q == PiecesAt(low, p, CHOOSE alternative \in pattern_budget_of : TRUE)
        d == SkipSpaces(low, q)
        n == IF d <= Len(low) /\ low[d] = "$" THEN d + 1 ELSE d
    IN  IF q # 0 /\ q <= Len(low) /\ IsSpace(low[q]) /\ n <= Len(low) /\ IsDigit(low[n])
        THEN n ELSE 0

\* lines 122-124
budget_constraints(low) ==
    LET starts == {p \in 1..Len(low) : BudgetDigitsAt(low, p) # 0}
    IN  IF starts = {} THEN NoneAmount
        ELSE LET p == CHOOSE s \in starts : \A o \in starts : s <= o
                 n == BudgetDigitsAt(low, p)
             IN  Amount(ParseInt(SubSeq(low, n, SkipDigits(low, n) - 1)))

\* lines 48-147
extract_information(conversation_context) ==
    LET full_text == Join(conversation_context)
        \* re.IGNORECASE of every search, and line 114
        low       == LowerText(full_text)
    IN  [EmptyInfo EXCEPT
            !.website_type = first_match(website_patterns, low),
            !.expected_traffic = first_match(traffic_patterns, low),
            !.database_needs = database_needs(low),
            !.storage_requirements = storage_requirements(low),
            !.budget_constraints = budget_constraints(low),
            !.availability_requirements =
                IF Search(pattern_availability, low) THEN "high" ELSE None,
            !.scaling_needs =
                IF Search(pattern_scaling, low) THEN "required" ELSE None,
            !.region_preferences = first_match(region_patterns, low)]

---------------------------------------------------------------------------
(* The analyzer before a call.                                            *)

\* the analyzer has not been called
NotExtracted == [extracted |-> FALSE]

NotDetermined == [determined |-> FALSE]

NotGenerated == <<[generated |-> FALSE]>>

AnalyzerIdle ==
    /\ conversation = <<>>
    /\ extracted_info = NotExtracted
    /\ requirements = NotDetermined
    /\ recommendations = NotGenerated

---------------------------------------------------------------------------
(* _sort_resources_by_dependencies, provisioner.py 131-176                 *)

\* the keys of a dict built from the batch, in insertion order: the first
\* occurrence of a name fixes its place
RECURSIVE KeyOrder(_)
KeyOrder(resources) ==
    IF resources = <<>> THEN <<>>
    ELSE LET front == KeyOrder(SubSeq(resources, 1, Len(resources) - 1))
             last  == resources[Len(resources)].name
         IN  IF last \in Range(front) THEN front ELSE Append(front, last)

\* line 142: {resource.name: resource for resource in resources}; a later
\* resource of the same name replaces the earlier one
resource_map(resources) ==
    [n \in {resources[k].name : k \in 1..Len(resources)} |->
        LET last == CHOOSE k \in 1..Len(resources) :
                        /\ resources[k].name = n
                        /\ \A j \in (k + 1)..Len(resources) : resources[j].name # n
        IN  resources[last]]

\* the mutant of dependency_graph that forgets an edge from a name to itself
dependency_graph_no_self(resources) ==
    LET rmap == resource_map(resources)
    IN  [n \in DOMAIN rmap |->
            (UNION {resources[k].dependencies :
                        k \in {j \in 1..Len(resources) : resources[j].name = n}}
                \cap DOMAIN rmap) \ {n}]

\* lines 145-150: name -> set of the dependency names that are names of the batch
dependency_graph(resources) ==
    LET rmap == resource_map(resources)
    IN  [n \in DOMAIN rmap |->
            UNION {resources[k].dependencies :
                        k \in {j \in 1..Len(resources) : resources[j].name = n}}
                \cap DOMAIN rmap]

\* the order in which `for dependency in dependency_graph[name]` yields a set
IterOrder(S, seed) == SelectSeq(seed, LAMBDA n : n \in S)

\* lines 153-155
VisitInit == [visited |-> {}, temp_visited |-> {}, order |-> <<>>,
              raised |-> FALSE, culprit |-> ""]

RECURSIVE visit(_, _, _, _)
RECURSIVE visit_each(_, _, _, _)

\* lines 157-169; st.raised models the ValueError travelling up the stack
visit(graph, seed, name, st) ==
    IF st.raised THEN st
    ELSE IF name \in st.temp_visited
         THEN [st EXCEPT !.raised = TRUE, !.culprit = name]
    ELSE IF name \in st.visited THEN st
    ELSE LET entered == [st EXCEPT !.temp_visited = @ \cup {name}]
             after   == visit_each(graph, seed, IterOrder(graph[name], seed), entered)
         IN  IF after.raised THEN after
             ELSE [after EXCEPT !.temp_visited = @ \ {name},
                                !.visited = @ \cup {name},
                                !.order = Append(@, name)]

\* lines 164-165 and 171-173: visit the names of a sequence in turn
visit_each(graph, seed, names, st) ==
    IF names = <<>> \/ st.raised THEN st
    ELSE visit_each(graph, seed, Tail(names), visit(graph, seed, Head(names), st))

Reverse(s) == [k \in 1..Len(s) |-> s[Len(s) + 1 - k]]

\* the mutant of sort_resources_by_dependencies that returns the visit order
\* as it is
sort_resources_unreversed(resources, seed) ==
    LET rmap  == resource_map(resources)
        final == visit_each(dependency_graph(resources), seed, KeyOrder(resources),
                            VisitInit)
    IN  IF final.raised
        THEN [raised |-> TRUE, culprit |-> final.culprit, value |-> <<>>]
        ELSE [raised |-> FALSE, culprit |-> "",
              value |-> [k \in 1..Len(final.order) |-> rmap[final.order[k]]]]

\* the mutant of sort_resources_by_dependencies that looks every dependency
\* up in the graph: a name that is no key of it raises
sort_resources_strict(resources, seed) ==
    LET rmap    == resource_map(resources)
        unknown == UNION {resources[k].dependencies : k \in 1..Len(resources)}
                       \ DOMAIN rmap
        final   == visit_each(dependency_graph(resources), seed, KeyOrder(resources),
                              VisitInit)
    IN  IF unknown # {}
        THEN [raised |-> TRUE, culprit |-> CHOOSE n \in unknown : TRUE, value |-> <<>>]
        ELSE IF final.raised
        THEN [raised |-> TRUE, culprit |-> final.culprit, value |-> <<>>]
        ELSE [raised |-> FALSE, culprit |-> "",
              value |-> [k \in 1..Len(final.order) |->
                            rmap[Reverse(final.order)[k]]]]

\* the mutant of sort_resources_by_dependencies whose error names the resource
\* the failing visit started from: the first key still in temp_visited
sort_resources_naming_root(resources, seed) ==
    LET rmap  == resource_map(resources)
        keys  == KeyOrder(resources)
        final == visit_each(dependency_graph(resources), seed, keys, VisitInit)
    IN  IF final.raised
        THEN [raised |-> TRUE,
              culprit |-> keys[CHOOSE k \in 1..Len(keys) :
                                  /\ keys[k] \in final.temp_visited
                                  /\ \A j \in 1..(k - 1) :
                                        keys[j] \notin final.temp_visited],
              value |-> <<>>]
        ELSE [raised |-> FALSE, culprit |-> "",
              value |-> [k \in 1..Len(final.order) |->
                            rmap[Reverse(final.order)[k]]]]

\* lines 141-176: raised/culprit is the ValueError, value the returned list
sort_resources_by_dependencies(resources, seed) ==
    LET rmap  == resource_map(resources)
        final == visit_each(dependency_graph(resources), seed, KeyOrder(resources),
                            VisitInit)
    IN  IF final.raised
        THEN [raised |-> TRUE, culprit |-> final.culprit, value |-> <<>>]
        ELSE [raised |-> FALSE, culprit |-> "",
              value |-> [k \in 1..Len(final.order) |->
                            rmap[Reverse(final.order)[k]]]]

---------------------------------------------------------------------------
(* SortSpec: the orderer applied to every batch of a bounded universe.     *)

\* the orderer never reads resource_type: one kind stands for all
SortUniverse == {OCIResource(n, "compute", d) : n \in Names, d \in SUBSET Names}

\* no status query has returned since the last step of a provisioning call
NoResult == <<>>

\* no endpoint has answered yet
NoResponse == [endpoint |-> "none", code |-> 0, request_id |-> "", body |-> <<>>]

NotCalled == [called |-> FALSE, raised |-> FALSE, culprit |-> "", value |-> <<>>]

IdleFrame ==
    [pc |-> "idle", request_id |-> "", resources |-> <<>>, sorted_resources |-> <<>>,
     i |-> 0, provisioned_resources |-> <<>>, error |-> "", attempted |-> <<>>,
     store_at_call |-> <<>>]

Threads == {"t1", "t2"}

\* the batches of SortSpec. Names are opaque to the orderer and every
\* iteration order is drawn, so a batch and an order are, up to renaming, a
\* batch that starts with the name A and some order: only those are drawn.
SortInputs ==
    {b \in SeqsUpTo(SortUniverse, MaxBatch) : b # <<>> => b[1].name = "A"}

SortInit ==
    /\ hash_seed \in IterationOrders(Names)
    /\ sort_input \in SortInputs
    /\ sort_output = NotCalled
    /\ provisioning_requests = <<>>
    /\ calls = [t \in Threads |-> IdleFrame]
    /\ submitted = 0
    /\ status_result = NoResult
    /\ api_provisioned = <<>>
    /\ api_response = NoResponse
    /\ AnalyzerIdle

\* one call of _sort_resources_by_dependencies
SortCall ==
    /\ ~sort_output.called
    /\ sort_output' = [called |-> TRUE] @@
                      sort_resources_by_dependencies(sort_input, hash_seed)
    /\ UNCHANGED <<analyzer_vars, hash_seed, provisioning_requests, calls, submitted, status_result,
                   sort_input, api_provisioned, api_response>>

SortNext == SortCall

SortSpec == SortInit /\ [][SortNext]_vars

---------------------------------------------------------------------------
(* What the claims about the orderer speak of, stated on the batch itself. *)

BatchNames(resources) == {resources[k].name : k \in 1..Len(resources)}

DistinctNames(resources) ==
    \A j, k \in 1..Len(resources) : resources[j].name = resources[k].name => j = k

\* the in-batch dependency edges: <<n, d>> when a resource named n lists d and
\* d is the name of a resource of the batch
InBatchEdges(resources) ==
    {<<resources[k].name, d>> : k \in 1..Len(resources), d \in Names} \cap
    {e \in Names \X Names :
        /\ e[2] \in BatchNames(resources)
        /\ \E k \in 1..Len(resources) :
              resources[k].name = e[1] /\ e[2] \in resources[k].dependencies}

RECURSIVE ReachFrom(_, _, _)
\* the names reachable from the set S along one or more edges, in at most n rounds
ReachFrom(S, edges, n) ==
    LET step == {e[2] : e \in {f \in edges : f[1] \in S}}
    IN  IF n = 0 THEN {} ELSE step \cup ReachFrom(step, edges, n - 1)

OnCycle(n, resources) ==
    n \in ReachFrom({n}, InBatchEdges(resources), Cardinality(Names))

HasCycle(resources) == \E n \in BatchNames(resources) : OnCycle(n, resources)

\* position of the resource named n in a list of distinctly named resources
PositionOf(n, list) == CHOOSE k \in 1..Len(list) : list[k].name = n

\* every resource of the list stands after each resource it depends on
DependenciesFirst(list, resources) ==
    \A e \in InBatchEdges(resources) :
        PositionOf(e[2], list) < PositionOf(e[1], list)

\* C1: for a batch of pairwise-distinct names whose in-batch dependency edges
\* are acyclic, the returned list places every resource after each resource it
\* depends on.
C1_DependenciesFirst ==
    (sort_output.called /\ DistinctNames(sort_input) /\ ~HasCycle(sort_input))
        => /\ ~sort_output.raised
           /\ DependenciesFirst(sort_output.value, sort_input)

\* C2: a batch whose in-batch dependency edges contain a cycle (a self-edge
\* included) makes the orderer raise the cycle error and return no list.
C2_CycleRaises ==
    (sort_output.called /\ HasCycle(sort_input))
        => (sort_output.raised /\ sort_output.value = <<>>)

\* a batch of three whose cycle does not start at the first resource, rejected
C2_Witness ==
    /\ sort_output.called
    /\ sort_output.raised
    /\ Len(sort_input) = 3
    /\ DistinctNames(sort_input)
    /\ ~OnCycle(sort_input[1].name, sort_input)
    /\ \E n \in BatchNames(sort_input) :
          OnCycle(n, sort_input) /\ <<n, n>> \notin InBatchEdges(sort_input)

\* the batch with every dependency name that is no name of the batch removed
StripUnknown(resources) ==
    [k \in 1..Len(resources) |->
        [resources[k] EXCEPT !.dependencies = @ \cap BatchNames(resources)]]

NamesOf(list) == [k \in 1..Len(list) |-> list[k].name]

\* C22: dependency names that name no resource of the batch are dropped:
\* the orderer raises or not, names the same resource and returns the same
\* order as on the batch without them, and a batch whose in-batch edges are
\* acyclic is ordered without an error.
C22_UnknownDependenciesDropped ==
    sort_output.called
        => LET stripped == sort_resources_by_dependencies(StripUnknown(sort_input),
                                                          hash_seed)
           IN  /\ sort_output.raised = stripped.raised
               /\ sort_output.culprit = stripped.culprit
               /\ NamesOf(sort_output.value) = NamesOf(stripped.value)
               /\ ~HasCycle(sort_input) => ~sort_output.raised

\* a batch of two with an in-batch edge, each resource naming a dependency
\* outside the batch as well, has been ordered
C22_Witness ==
    /\ sort_output.called
    /\ ~sort_output.raised
    /\ Len(sort_input) = 2
    /\ Len(sort_output.value) = 2
    /\ InBatchEdges(sort_input) # {}
    /\ \A k \in 1..Len(sort_input) :
          sort_input[k].dependencies \ BatchNames(sort_input) # {}

\* C23: the orderer is a function of the input list: whatever order the sets
\* of dependency names are iterated in, the same batch gives the same
\* sequence, batches with a resource of two in-batch dependencies included.
C23_OrderIndependentOfIteration ==
    (sort_output.called /\ ~sort_output.raised)
        => \A seed \in IterationOrders(Names) :
              sort_resources_by_dependencies(sort_input, seed).value
                  = sort_output.value

\* C24: the resource named in the cycle error lies on a cycle of in-batch
\* dependency edges; a resource that only depends on a cycle is never named.
C24_CulpritOnCycle ==
    (sort_output.called /\ sort_output.raised)
        => OnCycle(sort_output.culprit, sort_input)

\* the error was raised on a batch whose first resource depends on a cycle
\* without lying on one
C24_Witness ==
    /\ sort_output.called
    /\ sort_output.raised
    /\ DistinctNames(sort_input)
    /\ ~OnCycle(sort_input[1].name, sort_input)
    /\ \E n \in ReachFrom({sort_input[1].name}, InBatchEdges(sort_input),
                          Cardinality(Names)) : OnCycle(n, sort_input)

\* the number of places of the list that hold x
Count(x, list) == Cardinality({k \in 1..Len(list) : list[k] = x})

IsPermutation(list, resources) ==
    /\ Len(list) = Len(resources)
    /\ \A k \in 1..Len(resources) :
          Count(resources[k], list) = Count(resources[k], resources)

\* C25: for every acyclic batch, names pairwise distinct or not, the returned
\* list is a permutation of the batch: the same length, every submitted
\* resource exactly once.
C25_OutputIsPermutation ==
    (sort_output.called /\ ~sort_output.raised)
        => IsPermutation(sort_output.value, sort_input)

---------------------------------------------------------------------------
(* ResourceProvisioner: the store and provision_resources, provisioner.py  *)
(* 23-129 and 178-209.                                                     *)

RECURSIVE GCD(_, _)
GCD(a, b) == IF b = 0 THEN a ELSE GCD(b, a % b)

\* a progress value, the fraction num/den in lowest terms (a float in the code)
Fraction(num, den) == <<num \div GCD(num, den), den \div GCD(num, den)>>

\* the mutant of ProgressAt that stores the share still to do
ProgressAt_remaining(i, total) == Fraction((total - i) * 100, total)

\* the mutant of ProgressAt that counts the resource about to be provisioned
ProgressAt_counting_current(i, total) == Fraction((i + 1) * 100, total)

\* line 69: (i / total_resources) * 100, i counted from 0
ProgressAt(i, total) == Fraction(i * 100, total)

ProgressLeq(p, q) == p[1] * q[2] <= q[1] * p[2]

P0 == Fraction(0, 1)

P100 == Fraction(100, 1)

\* lines 49-55, the entry of a request seen for the first time
NewEntry == [status |-> "in_progress", resources |-> <<>>, progress |-> P0]

\* d[key] = value on a dict
DictSet(d, key, value) ==
    [k \in DOMAIN d \cup {key} |-> IF k = key THEN value ELSE d[k]]

\* schemas.ProvisionedResource as the five handlers build it (lines 211-342)
ProvisionedResource(resource) ==
    [resource_type |-> resource.resource_type, name |-> resource.name,
     ocid |-> <<"ocid1", resource.resource_type>>, status |-> ACTIVE]

\* the mutant of provision_resource that hands an unsupported kind to a handler
provision_resource_any_kind(resource, backend_fails) ==
    IF backend_fails /\ resource.resource_type \in HandledTypes
    THEN [ok |-> FALSE, error |-> BackendError]
    ELSE [ok |-> TRUE, value |-> ProvisionedResource(resource)]

\* lines 178-209: the kind decides the handler; backend_fails stands for an
\* exception escaping the handler chosen
provision_resource(resource, backend_fails) ==
    IF resource.resource_type \in HandledTypes
    THEN IF backend_fails
         THEN [ok |-> FALSE, error |-> BackendError]
         ELSE [ok |-> TRUE, value |-> ProvisionedResource(resource)]
    ELSE [ok |-> FALSE, error |-> UnsupportedError(resource.resource_type)]

\* lines 77-82
ActiveRecord(provisioned) ==
    [name |-> provisioned.name, type |-> provisioned.resource_type,
     status |-> provisioned.status, ocid |-> provisioned.ocid]

\* lines 90-95
FailedRecord(resource, error) ==
    [name |-> resource.name, type |-> resource.resource_type,
     status |-> "failed", error |-> error]

\* the mutant of begin that stores a new entry whether or not one is stored
begin_overwriting(t, request_id, resources) ==
    /\ calls[t].pc = "idle"
    /\ submitted + Len(resources) <= MaxSubmitted
    /\ submitted' = submitted + Len(resources)
    /\ provisioning_requests' = DictSet(provisioning_requests, request_id, NewEntry)
    /\ calls' = [calls EXCEPT ![t] =
          [IdleFrame EXCEPT !.pc = "sort", !.request_id = request_id,
                            !.resources = resources,
                            !.store_at_call = provisioning_requests]]
    /\ status_result' = NoResult
    /\ UNCHANGED <<analyzer_vars, hash_seed, sort_input, sort_output, api_provisioned, api_response>>

\* lines 45-55: the call starts; the entry is created unless one is stored
begin(t, request_id, resources) ==
    /\ calls[t].pc = "idle"
    /\ submitted + Len(resources) <= MaxSubmitted
    /\ submitted' = submitted + Len(resources)
    /\ provisioning_requests' =
          IF request_id \notin DOMAIN provisioning_requests
          THEN DictSet(provisioning_requests, request_id, NewEntry)
          ELSE provisioning_requests
    /\ calls' = [calls EXCEPT ![t] =
          [IdleFrame EXCEPT !.pc = "sort", !.request_id = request_id,
                            !.resources = resources,
                            !.store_at_call = provisioning_requests]]
    /\ status_result' = NoResult
    /\ UNCHANGED <<analyzer_vars, hash_seed, sort_input, sort_output, api_provisioned, api_response>>

\* the mutant of sort that swallows the ValueError and goes on with the batch
\* in the order given
sort_swallowing(t) ==
    /\ calls[t].pc = "sort"
    /\ LET sorted == sort_resources_by_dependencies(calls[t].resources, hash_seed)
           list   == IF sorted.raised THEN calls[t].resources ELSE sorted.value
       IN  calls' = [calls EXCEPT ![t] =
              [@ EXCEPT !.pc = IF list = <<>> THEN "final_status"
                               ELSE "update_progress",
                        !.sorted_resources = list]]
    /\ status_result' = NoResult
    /\ UNCHANGED <<analyzer_vars, hash_seed, provisioning_requests, submitted, sort_input, sort_output,
                   api_provisioned, api_response>>

\* lines 57-62: the batch is ordered, or the ValueError leaves the call
sort(t) ==
    /\ calls[t].pc = "sort"
    /\ LET sorted == sort_resources_by_dependencies(calls[t].resources, hash_seed)
       IN  calls' = [calls EXCEPT ![t] =
              IF sorted.raised
              THEN [@ EXCEPT !.pc = "raised", !.error = sorted.culprit]
              ELSE [@ EXCEPT !.pc = IF sorted.value = <<>> THEN "final_status"
                                    ELSE "update_progress",
                             !.sorted_resources = sorted.value]]
    /\ status_result' = NoResult
    /\ UNCHANGED <<analyzer_vars, hash_seed, provisioning_requests, submitted, sort_input, sort_output,
                   api_provisioned, api_response>>

\* lines 64-70: the progress of iteration i is stored
update_progress(t) ==
    /\ calls[t].pc = "update_progress"
    /\ LET f == calls[t]
       IN  provisioning_requests' =
              [provisioning_requests EXCEPT ![f.request_id].progress =
                  ProgressAt(f.i, Len(f.sorted_resources))]
    /\ calls' = [calls EXCEPT ![t].pc = "provision"]
    /\ status_result' = NoResult
    /\ UNCHANGED <<analyzer_vars, hash_seed, submitted, sort_input, sort_output, api_provisioned,
                   api_response>>

\* the mutant of provision without the except clause: a failing handler ends
\* the call
provision_propagating(t, backend_fails) ==
    /\ calls[t].pc = "provision"
    /\ LET f        == calls[t]
           resource == f.sorted_resources[f.i + 1]
           outcome  == provision_resource(resource, backend_fails)
       IN  /\ provisioning_requests' =
                 IF outcome.ok
                 THEN [provisioning_requests EXCEPT ![f.request_id].resources =
                          Append(@, ActiveRecord(outcome.value))]
                 ELSE provisioning_requests
           /\ calls' = [calls EXCEPT ![t] =
                 IF outcome.ok
                 THEN [@ EXCEPT !.i = f.i + 1,
                                !.attempted = Append(@, resource.name),
                                !.provisioned_resources = Append(@, outcome.value),
                                !.pc = IF f.i + 1 = Len(f.sorted_resources)
                                       THEN "final_status" ELSE "update_progress"]
                 ELSE [@ EXCEPT !.attempted = Append(@, resource.name),
                                !.pc = "raised", !.error = resource.name]]
    /\ status_result' = NoResult
    /\ UNCHANGED <<analyzer_vars, hash_seed, submitted, sort_input, sort_output, api_provisioned,
                   api_response>>

\* the mutant of provision that puts the resource in the returned list
\* whether or not its handler succeeded
provision_returning_failed(t, backend_fails) ==
    /\ calls[t].pc = "provision"
    /\ LET f        == calls[t]
           resource == f.sorted_resources[f.i + 1]
           outcome  == provision_resource(resource, backend_fails)
           record   == IF outcome.ok THEN ActiveRecord(outcome.value)
                       ELSE FailedRecord(resource, outcome.error)
       IN  /\ provisioning_requests' =
                 [provisioning_requests EXCEPT ![f.request_id].resources =
                     Append(@, record)]
           /\ calls' = [calls EXCEPT ![t] =
                 [@ EXCEPT !.i = f.i + 1,
                           !.attempted = Append(@, resource.name),
                           !.provisioned_resources =
                               Append(@, ProvisionedResource(resource)),
                           !.pc = IF f.i + 1 = Len(f.sorted_resources)
                                  THEN "final_status" ELSE "update_progress"]]
    /\ status_result' = NoResult
    /\ UNCHANGED <<analyzer_vars, hash_seed, submitted, sort_input, sort_output, api_provisioned,
                   api_response>>

\* lines 72-98: the resource of iteration i is provisioned and its outcome
\* record appended, active or failed
provision(t, backend_fails) ==
    /\ calls[t].pc = "provision"
    /\ LET f        == calls[t]
           resource == f.sorted_resources[f.i + 1]
           outcome  == provision_resource(resource, backend_fails)
           record   == IF outcome.ok THEN ActiveRecord(outcome.value)
                       ELSE FailedRecord(resource, outcome.error)
       IN  /\ provisioning_requests' =
                 [provisioning_requests EXCEPT ![f.request_id].resources =
                     Append(@, record)]
           /\ calls' = [calls EXCEPT ![t] =
                 [@ EXCEPT !.i = f.i + 1,
                           !.attempted = Append(@, resource.name),
                           !.provisioned_resources =
                               IF outcome.ok THEN Append(@, outcome.value) ELSE @,
                           !.pc = IF f.i + 1 = Len(f.sorted_resources)
                                  THEN "final_status" ELSE "update_progress"]]
    /\ status_result' = NoResult
    /\ UNCHANGED <<analyzer_vars, hash_seed, submitted, sort_input, sort_output, api_provisioned,
                   api_response>>

\* the mutant of final_status that marks every stored entry completed
final_status_all(t) ==
    /\ calls[t].pc = "final_status"
    /\ provisioning_requests' =
          [r \in DOMAIN provisioning_requests |->
              [provisioning_requests[r] EXCEPT !.status = "completed"]]
    /\ calls' = [calls EXCEPT ![t].pc = "final_progress"]
    /\ status_result' = NoResult
    /\ UNCHANGED <<analyzer_vars, hash_seed, submitted, sort_input, sort_output, api_provisioned,
                   api_response>>

\* line 101
final_status(t) ==
    /\ calls[t].pc = "final_status"
    /\ provisioning_requests' =
          [provisioning_requests EXCEPT ![calls[t].request_id].status = "completed"]
    /\ calls' = [calls EXCEPT ![t].pc = "final_progress"]
    /\ status_result' = NoResult
    /\ UNCHANGED <<analyzer_vars, hash_seed, submitted, sort_input, sort_output, api_provisioned,
                   api_response>>

\* line 102
final_progress(t) ==
    /\ calls[t].pc = "final_progress"
    /\ provisioning_requests' =
          [provisioning_requests EXCEPT ![calls[t].request_id].progress = P100]
    /\ calls' = [calls EXCEPT ![t].pc = "returned"]
    /\ status_result' = NoResult
    /\ UNCHANGED <<analyzer_vars, hash_seed, submitted, sort_input, sort_output, api_provisioned,
                   api_response>>

\* the mutant of leave that evicts the entry of a call that has returned
leave_evicting(t) ==
    /\ calls[t].pc \in {"returned", "raised"}
    /\ calls' = [calls EXCEPT ![t] = IdleFrame]
    /\ provisioning_requests' =
          IF calls[t].pc = "returned"
          THEN [r \in DOMAIN provisioning_requests \ {calls[t].request_id} |->
                   provisioning_requests[r]]
          ELSE provisioning_requests
    /\ status_result' = NoResult
    /\ UNCHANGED <<analyzer_vars, hash_seed, submitted, sort_input, sort_output,
                   api_provisioned, api_response>>

\* lines 104-105, or the ValueError of line 58 reaching the caller: the frame
\* is left
leave(t) ==
    /\ calls[t].pc \in {"returned", "raised"}
    /\ calls' = [calls EXCEPT ![t] = IdleFrame]
    /\ status_result' = NoResult
    /\ UNCHANGED <<analyzer_vars, hash_seed, provisioning_requests, submitted, sort_input, sort_output,
                   api_provisioned, api_response>>

\* lines 117-129: the value get_provisioning_status returns on a store
status_of(store, request_id) ==
    IF request_id \notin DOMAIN store
    THEN [request_id |-> request_id, status |-> "not_found",
          progress |-> P0, resources |-> <<>>]
    ELSE [request_id |-> request_id, status |-> store[request_id].status,
          progress |-> store[request_id].progress,
          resources |-> store[request_id].resources]

\* the mutant of get_provisioning_status that stores an entry for an unknown id,
\* as a defaultdict lookup would
get_provisioning_status_creating(request_id) ==
    /\ status_result' = status_of(provisioning_requests, request_id)
    /\ provisioning_requests' =
          IF request_id \notin DOMAIN provisioning_requests
          THEN DictSet(provisioning_requests, request_id, NewEntry)
          ELSE provisioning_requests
    /\ UNCHANGED <<analyzer_vars, hash_seed, calls, submitted, sort_input, sort_output,
                   api_provisioned, api_response>>

\* lines 107-129
get_provisioning_status(request_id) ==
    /\ status_result' = status_of(provisioning_requests, request_id)
    /\ UNCHANGED <<analyzer_vars, hash_seed, provisioning_requests, calls, submitted, sort_input,
                   sort_output, api_provisioned, api_response>>

---------------------------------------------------------------------------
(* Spec: one ResourceProvisioner, its callers one after the other.         *)

\* the resources of the batches of Spec: a compute A that may list itself or B,
\* a database B and a kubernetes cluster C that may list A
ProvUniverse ==
    {OCIResource("A", "compute", d) : d \in {{}, {"A"}, {"B"}}}
    \cup {OCIResource("B", "database", d) : d \in {{}, {"A"}}}
    \cup {OCIResource("C", "kubernetes", d) : d \in {{}, {"A"}}}

\* no resource of ProvUniverse has two dependencies, so the iteration order of
\* a dependency set decides nothing in Spec (SortSpec draws every order)
SpecSeeds == {<<"A", "B", "C">>}

\* request ids are opaque: a call names a stored id or the first unused one
CallIds ==
    DOMAIN provisioning_requests \cup
    (IF "r1" \notin DOMAIN provisioning_requests THEN {"r1"}
     ELSE IF "r2" \notin DOMAIN provisioning_requests THEN {"r2"} ELSE {})

Init ==
    /\ hash_seed \in SpecSeeds
    /\ provisioning_requests = <<>>
    /\ calls = [t \in Threads |-> IdleFrame]
    /\ submitted = 0
    /\ status_result = NoResult
    /\ sort_input = <<>>
    /\ sort_output = NotCalled
    /\ api_provisioned = <<>>
    /\ api_response = NoResponse
    /\ AnalyzerIdle

Next ==
    \/ \E r \in CallIds, b \in SeqsUpTo(ProvUniverse, MaxSubmitted - submitted) :
          begin("t1", r, b)
    \/ sort("t1")
    \/ update_progress("t1")
    \/ \E fails \in BOOLEAN : provision("t1", fails)
    \/ final_status("t1")
    \/ final_progress("t1")
    \/ leave("t1")
    \/ \E r \in RequestIds : get_provisioning_status(r)

Spec == Init /\ [][Next]_vars

---------------------------------------------------------------------------
(* What the claims about provision_resources speak of.                     *)

\* the outcome records the entry of the call held when the call started
RecordsAtCall(t) ==
    LET f == calls[t]
    IN  IF f.request_id \in DOMAIN f.store_at_call
        THEN f.store_at_call[f.request_id].resources ELSE <<>>

\* the outcome records in the entry of the call now
RecordsNow(t) == provisioning_requests[calls[t].request_id].resources

\* the outcome records appended since the call started
Appended(t) == SubSeq(RecordsNow(t), Len(RecordsAtCall(t)) + 1, Len(RecordsNow(t)))

\* a call is under way or has just ended
Active(t) == calls[t].pc # "idle"

\* the resources whose handler returned a provisioned resource in this call
Succeeded(t) ==
    {calls[t].provisioned_resources[k].name :
        k \in 1..Len(calls[t].provisioned_resources)}

RecordsNamed(n, records) == {k \in 1..Len(records) : records[k].name = n}

\* C3: a call on a batch with a dependency cycle fails with the cycle error
\* before any handler runs and before any outcome record is appended.
C3_CycleAbortsBeforeAnyEffect ==
    \A t \in Threads :
        (Active(t) /\ HasCycle(calls[t].resources))
            => /\ calls[t].pc \in {"sort", "raised"}
               /\ calls[t].attempted = <<>>
               /\ calls[t].provisioned_resources = <<>>
               /\ Appended(t) = <<>>

\* the call on X -> Y, Y -> X has failed
C3_Witness ==
    \E t \in Threads :
        /\ calls[t].pc = "raised"
        /\ Len(calls[t].resources) = 2
        /\ DistinctNames(calls[t].resources)
        /\ \A n \in BatchNames(calls[t].resources) : OnCycle(n, calls[t].resources)

\* C4: after a call failed with the cycle error the store is as it was before
\* the call, or the entry of the request is marked failed; no entry is left
\* in_progress for the aborted batch.
C4_AbortLeavesNoInProgressEntry ==
    \A t \in Threads :
        calls[t].pc = "raised"
            => \/ provisioning_requests = calls[t].store_at_call
               \/ provisioning_requests[calls[t].request_id].status = "failed"

\* C5: on an acyclic batch (of pairwise-distinct names, as the data model has
\* it) the call does not fail whichever handlers fail; every resource is
\* attempted, a resource whose handler failed has exactly one record, failed
\* and carrying the error, every other resource exactly one record, active;
\* the request ends completed with progress 100.
C5_PartialFailureTolerated ==
    \A t \in Threads :
        (Active(t) /\ DistinctNames(calls[t].resources) /\ ~HasCycle(calls[t].resources))
            => /\ calls[t].pc # "raised"
               /\ calls[t].pc = "returned" =>
                    /\ Len(calls[t].attempted) = Len(calls[t].resources)
                    /\ Range(calls[t].attempted) = BatchNames(calls[t].resources)
                    /\ Len(Appended(t)) = Len(calls[t].resources)
                    /\ \A n \in BatchNames(calls[t].resources) :
                          \E k \in 1..Len(Appended(t)) :
                              /\ RecordsNamed(n, Appended(t)) = {k}
                              /\ IF n \in Succeeded(t)
                                 THEN Appended(t)[k].status = "active"
                                 ELSE /\ Appended(t)[k].status = "failed"
                                      /\ Appended(t)[k].error \in
                                            {BackendError} \cup
                                            {UnsupportedError(ty) : ty \in ResourceType}
                    /\ provisioning_requests[calls[t].request_id].status = "completed"
                    /\ provisioning_requests[calls[t].request_id].progress = P100

\* B depends on A, the handler of A failed, and B is active all the same
C5_Witness ==
    \E t \in Threads :
        /\ calls[t].pc = "returned"
        /\ BatchNames(calls[t].resources) = {"A", "B"}
        /\ <<"B", "A">> \in InBatchEdges(calls[t].resources)
        /\ Succeeded(t) = {"B"}
        /\ \E k \in 1..Len(Appended(t)) :
              Appended(t)[k].name = "A" /\ Appended(t)[k].status = "failed"

\* a step of a call leaves the stored progress of its request at least as high
ProgressKept(t) ==
    LET id == calls'[t].request_id
    IN  id \in DOMAIN provisioning_requests
            => ProgressLeq(provisioning_requests[id].progress,
                           provisioning_requests'[id].progress)

\* the first progress write of a call whose request already had an entry
FirstWriteOfRerun(t) ==
    /\ calls[t].pc = "update_progress"
    /\ calls'[t].pc = "provision"
    /\ calls[t].i = 0
    /\ calls[t].request_id \in DOMAIN calls[t].store_at_call

\* C6 as stated: across a single call the stored progress never decreases from
\* one state to the next, from the start of the call to its end, and it is 100
\* when the call returns.
C6_ProgressNeverDecreases ==
    [][\A t \in Threads :
          calls'[t].pc # "idle"
              => /\ ProgressKept(t)
                 /\ calls'[t].pc = "returned" =>
                       provisioning_requests'[calls'[t].request_id].progress = P100]_vars

\* C6, amended: across a single call the stored progress never decreases from
\* one state to the next, except that the first progress write of a call on a
\* request_id that already has an entry sets it back to 0; it is 100 when the
\* call returns, with failed resources and with an empty batch too.
C6_ProgressNeverDecreasesButRerun ==
    [][\A t \in Threads :
          calls'[t].pc # "idle"
              => /\ ~FirstWriteOfRerun(t) => ProgressKept(t)
                 /\ FirstWriteOfRerun(t) =>
                       provisioning_requests'[calls'[t].request_id].progress = P0
                 /\ calls'[t].pc = "returned" =>
                       provisioning_requests'[calls'[t].request_id].progress = P100]_vars

\* a first call on two resources, one of them failed, has returned at 100
C6_Witness ==
    \E t \in Threads :
        /\ calls[t].pc = "returned"
        /\ calls[t].request_id \notin DOMAIN calls[t].store_at_call
        /\ Len(calls[t].attempted) = 2
        /\ Len(calls[t].provisioned_resources) = 1
        /\ provisioning_requests[calls[t].request_id].progress = P100

\* C7 as stated: when a second call with a stored request_id returns, the
\* stored list holds exactly the records of the second call's batch and none
\* of the first call's.
C7_SecondCallOverwrites ==
    \A t \in Threads :
        (calls[t].pc = "returned" /\ calls[t].request_id \in DOMAIN calls[t].store_at_call)
            => RecordsNow(t) = Appended(t)

\* what the code does in the case of C7: a second call with a stored
\* request_id re-runs provisioning and appends: at every point of the call the records stored before it are
\* still there, in place, and when it returns the stored list is those records
\* followed by one record per resource the second call processed, in the
\* order processed.
C7_SecondCallAppends ==
    \A t \in Threads :
        (Active(t) /\ calls[t].request_id \in DOMAIN calls[t].store_at_call)
            => /\ Len(RecordsAtCall(t)) <= Len(RecordsNow(t))
               /\ SubSeq(RecordsNow(t), 1, Len(RecordsAtCall(t))) = RecordsAtCall(t)
               /\ calls[t].pc = "returned" =>
                    /\ Len(Appended(t)) = Len(calls[t].sorted_resources)
                    /\ \A k \in 1..Len(Appended(t)) :
                          Appended(t)[k].name = calls[t].sorted_resources[k].name

\* a second call has returned; the entry held records before it and got more
C7_Witness ==
    \E t \in Threads :
        /\ calls[t].pc = "returned"
        /\ calls[t].request_id \in DOMAIN calls[t].store_at_call
        /\ RecordsAtCall(t) # <<>>
        /\ Appended(t) # <<>>

\* C9: get_provisioning_status leaves the store as it is; for a request_id
\* without an entry it returns status not_found, progress 0 and no resources,
\* for one with an entry the status, progress and resources of the entry.
C9_StatusIsPureRead ==
    [][status_result' # NoResult
          => /\ provisioning_requests' = provisioning_requests
             /\ LET id == status_result'.request_id
                IN  IF id \in DOMAIN provisioning_requests
                    THEN /\ status_result'.status = provisioning_requests[id].status
                         /\ status_result'.progress = provisioning_requests[id].progress
                         /\ status_result'.resources = provisioning_requests[id].resources
                    ELSE /\ status_result'.status = "not_found"
                         /\ status_result'.progress = P0
                         /\ status_result'.resources = <<>>]_vars

\* a query for an unknown id answered not_found while the store holds the
\* entry of another request, and no entry for the id queried
C9_Witness ==
    /\ status_result # NoResult
    /\ status_result.status = "not_found"
    /\ provisioning_requests # <<>>
    /\ status_result.request_id \notin DOMAIN provisioning_requests

\* C10: a resource of a kind without a handler (kubernetes) is recorded as
\* one failed outcome carrying the unsupported-type error and is not returned;
\* the batch is not aborted: the other resources are processed and the
\* request completes.
C10_UnsupportedKindFailsAlone ==
    \A t \in Threads :
        (Active(t) /\ DistinctNames(calls[t].resources) /\ ~HasCycle(calls[t].resources))
            => /\ calls[t].pc # "raised"
               /\ \A k \in 1..Len(Appended(t)) :
                     calls[t].sorted_resources[k].resource_type \notin HandledTypes
                        => /\ Appended(t)[k].name = calls[t].sorted_resources[k].name
                           /\ Appended(t)[k].status = "failed"
                           /\ Appended(t)[k].error =
                                 UnsupportedError(calls[t].sorted_resources[k].resource_type)
                           /\ Appended(t)[k].name \notin Succeeded(t)
               /\ calls[t].pc = "returned" =>
                    /\ Len(Appended(t)) = Len(calls[t].resources)
                    /\ provisioning_requests[calls[t].request_id].status = "completed"

\* the kubernetes resource was processed first and failed, the compute
\* resource after it is active, and the call has returned
C10_Witness ==
    \E t \in Threads :
        /\ calls[t].pc = "returned"
        /\ Len(Appended(t)) = 2
        /\ Appended(t)[1].type = "kubernetes"
        /\ Appended(t)[1].status = "failed"
        /\ Appended(t)[2].type = "compute"
        /\ Appended(t)[2].status = "active"

\* the statuses and the progress range an entry may hold
EntryWellFormed(entry) ==
    /\ entry.status \in {"in_progress", "completed"}
    /\ ProgressLeq(P0, entry.progress)
    /\ ProgressLeq(entry.progress, P100)

\* C11: in every reachable state every stored entry has status in_progress or
\* completed (not_found is never stored) and progress within [0, 100], and no
\* step of a provisioning call or of a status query removes an entry.
C11_EntriesWellFormedAndKept ==
    /\ [](\A r \in DOMAIN provisioning_requests :
              EntryWellFormed(provisioning_requests[r]))
    /\ [][DOMAIN provisioning_requests \subseteq DOMAIN provisioning_requests']_vars

\* a completed entry and an entry half way through its batch are both stored,
\* and a status query has just been answered
C11_Witness ==
    /\ DOMAIN provisioning_requests = RequestIds
    /\ \E r \in RequestIds : provisioning_requests[r].status = "completed"
    /\ \E r \in RequestIds :
          /\ provisioning_requests[r].status = "in_progress"
          /\ provisioning_requests[r].progress = Fraction(50, 1)
    /\ status_result # NoResult

\* the call of the thread stands between line 101 and line 102
BetweenFinalWrites(r) ==
    \E t \in Threads : calls[t].pc = "final_progress" /\ calls[t].request_id = r

\* C26: in every state of the store, after any sequence of provisioning
\* calls and status queries, repeated calls with one request_id included, an
\* entry whose status is completed has progress 100: while a call works
\* through a batch its entry reads in_progress. The two writes of lines 101
\* and 102 are taken as one.
C26_CompletedMeansProgress100 ==
    \A r \in DOMAIN provisioning_requests :
        (provisioning_requests[r].status = "completed" /\ ~BetweenFinalWrites(r))
            => provisioning_requests[r].progress = P100

\* the outcome records appended by the call that are failed records
FailedAppended(t) == {k \in 1..Len(Appended(t)) : Appended(t)[k].status = "failed"}

\* the outcome records appended by the call for handlers that succeeded
ActiveAppended(t) == SelectSeq(Appended(t), LAMBDA record : record.status # "failed")

\* C27: the list provision_resources returns holds exactly the resources
\* whose handler succeeded, each active with a generated identifier, in the
\* order they were processed; a failed resource is in the stored outcome list
\* only, so the returned length plus the failed records of the call is the
\* number of resources processed.
C27_ReturnedAreTheSucceeded ==
    \A t \in Threads :
        calls[t].pc = "returned"
            => LET returned == calls[t].provisioned_resources
               IN  /\ \A k \in 1..Len(returned) :
                         /\ returned[k].status = ACTIVE
                         /\ returned[k].ocid = <<"ocid1", returned[k].resource_type>>
                   /\ [k \in 1..Len(returned) |-> ActiveRecord(returned[k])]
                         = ActiveAppended(t)
                   /\ Len(Appended(t)) = Len(calls[t].sorted_resources)
                   /\ NamesOf(Appended(t)) = NamesOf(calls[t].sorted_resources)
                   /\ Len(returned) + Cardinality(FailedAppended(t))
                         = Len(calls[t].sorted_resources)

\* a call on three resources has returned two of them, the handler of the
\* second one processed having failed
C27_Witness ==
    \E t \in Threads :
        /\ calls[t].pc = "returned"
        /\ Len(calls[t].sorted_resources) = 3
        /\ Len(calls[t].provisioned_resources) = 2
        /\ FailedAppended(t) = {2}

\* the first call for its request_id, on a batch of distinctly named resources
FirstCallOnDistinct(t) ==
    /\ Active(t)
    /\ calls[t].request_id \notin DOMAIN calls[t].store_at_call
    /\ calls[t].resources # <<>>
    /\ DistinctNames(calls[t].resources)

\* C29: during the first call for a request_id on n >= 1 distinctly named
\* resources the stored progress never overstates the records stored:
\* progress <= 100 * records / n in every state, with equality when the call
\* starts (no record, progress 0) and when it has returned (n records,
\* progress 100).
C29_ProgressNeverOverstates ==
    \A t \in Threads :
        FirstCallOnDistinct(t)
            => LET entry == provisioning_requests[calls[t].request_id]
                   n     == Len(calls[t].resources)
               IN  /\ ProgressLeq(entry.progress,
                                  Fraction(100 * Len(entry.resources), n))
                   /\ calls[t].pc = "sort"
                         => entry.resources = <<>> /\ entry.progress = P0
                   /\ calls[t].pc = "returned"
                         => Len(entry.resources) = n /\ entry.progress = P100

\* half way through a first call on two resources: one record stored and
\* progress 50, seen by a status query
C29_Witness ==
    \E t \in Threads :
        /\ FirstCallOnDistinct(t)
        /\ Len(calls[t].resources) = 2
        /\ calls[t].pc = "provision"
        /\ Len(provisioning_requests[calls[t].request_id].resources) = 1
        /\ provisioning_requests[calls[t].request_id].progress = Fraction(50, 1)
        /\ status_result # NoResult
        /\ status_result.progress = Fraction(50, 1)

---------------------------------------------------------------------------
(* ApiSpec: the endpoints of router.py. Each endpoint call constructs its  *)
(* own ResourceProvisioner (lines 45 and 100), whose store starts empty    *)
(* (provisioner.py line 30).                                               *)

RECURSIVE provision_loop(_, _, _, _, _)
\* provisioner.py 64-98 run to the end on one entry; failing names the
\* resources whose handler raises
provision_loop(entry, sorted, i, failing, provisioned) ==
    IF i = Len(sorted) THEN [entry |-> entry, provisioned |-> provisioned]
    ELSE LET resource == sorted[i + 1]
             outcome  == provision_resource(resource, resource.name \in failing)
             record   == IF outcome.ok THEN ActiveRecord(outcome.value)
                         ELSE FailedRecord(resource, outcome.error)
         IN  provision_loop(
                 [entry EXCEPT !.progress = ProgressAt(i, Len(sorted)),
                               !.resources = Append(@, record)],
                 sorted, i + 1, failing,
                 IF outcome.ok THEN Append(provisioned, outcome.value)
                 ELSE provisioned)

\* provisioner.py 45-105, a whole call on the store given
provision_resources(store, request_id, resources, seed, failing) ==
    LET created == IF request_id \notin DOMAIN store
                   THEN DictSet(store, request_id, NewEntry) ELSE store
        sorted  == sort_resources_by_dependencies(resources, seed)
        done    == provision_loop(created[request_id], sorted.value, 0, failing, <<>>)
    IN  IF sorted.raised
        THEN [raised |-> TRUE, culprit |-> sorted.culprit, store |-> created,
              value |-> <<>>]
        ELSE [raised |-> FALSE, culprit |-> "",
              store |-> DictSet(created, request_id,
                                [done.entry EXCEPT !.status = "completed",
                                                   !.progress = P100]),
              value |-> done.provisioned]

\* provisioner.py 23-30: ResourceProvisioner()
NewProvisionerStore == <<>>

\* router.py 39-59, POST /provision
api_provision(request_id, resources, failing) ==
    LET result == provision_resources(NewProvisionerStore, request_id, resources,
                                      hash_seed, failing)
    IN  /\ api_response' =
              IF result.raised
              THEN [endpoint |-> "provision", code |-> 500, request_id |-> request_id,
                    body |-> <<"Error provisioning resources", result.culprit>>]
              ELSE [endpoint |-> "provision", code |-> 200, request_id |-> request_id,
                    body |-> [status |-> "success",
                              provisioned_resources |-> result.value]]
        /\ api_provisioned' =
              IF result.raised THEN api_provisioned
              ELSE DictSet(api_provisioned, request_id, result.value)
        /\ UNCHANGED <<analyzer_vars, hash_seed, provisioning_requests, calls, submitted, status_result,
                       sort_input, sort_output>>

\* router.py 94-107, GET /status/{request_id}
api_status(request_id) ==
    /\ api_response' =
          [endpoint |-> "status", code |-> 200, request_id |-> request_id,
           body |-> status_of(NewProvisionerStore, request_id)]
    /\ UNCHANGED <<analyzer_vars, hash_seed, provisioning_requests, calls, submitted, status_result,
                   sort_input, sort_output, api_provisioned>>

\* the names whose resources have a handler that may or may not fail
HandledNames == {r.name : r \in {u \in ProvUniverse : u.resource_type \in HandledTypes}}

ApiInit ==
    /\ hash_seed \in SpecSeeds
    /\ provisioning_requests = <<>>
    /\ calls = [t \in Threads |-> IdleFrame]
    /\ submitted = 0
    /\ status_result = NoResult
    /\ sort_input = <<>>
    /\ sort_output = NotCalled
    /\ api_provisioned = <<>>
    /\ api_response = NoResponse
    /\ AnalyzerIdle

ApiNext ==
    \/ \E r \in RequestIds, b \in SeqsUpTo(ProvUniverse, MaxProvBatch),
          failing \in SUBSET HandledNames : api_provision(r, b, failing)
    \/ \E r \in RequestIds : api_status(r)

ApiSpec == ApiInit /\ [][ApiNext]_vars

\* C8: the store is process-wide: once POST /provision has answered success
\* for a request_id, GET /status for it returns what provisioning wrote:
\* status completed, progress 100 and the outcome records, not not_found.
C8_StatusSeesProvisioning ==
    (api_response.endpoint = "status"
        /\ api_response.request_id \in DOMAIN api_provisioned)
        => /\ api_response.body.status = "completed"
           /\ api_response.body.progress = P100
           /\ \A k \in 1..Len(api_provisioned[api_response.request_id]) :
                 \E j \in 1..Len(api_response.body.resources) :
                     api_response.body.resources[j] =
                         ActiveRecord(api_provisioned[api_response.request_id][k])

\* a whole call on a store is the call run statement by statement
RunMatchesSteps ==
    \A t \in Threads :
        calls[t].pc \in {"returned", "raised"}
            => \E failing \in SUBSET Names :
                  LET run == provision_resources(calls[t].store_at_call,
                                 calls[t].request_id, calls[t].resources,
                                 hash_seed, failing)
                  IN  /\ run.store = provisioning_requests
                      /\ run.raised = (calls[t].pc = "raised")
                      /\ run.value = calls[t].provisioned_resources

---------------------------------------------------------------------------
(* ResolveSpec: the resolvers and the generator of analyzer.py applied to  *)
(* every dict of extracted signals of a bounded universe.                  *)

\* the provisioner and the router are idle
ProvisionerIdle ==
    /\ provisioning_requests = <<>>
    /\ calls = [t \in Threads |-> IdleFrame]
    /\ submitted = 0
    /\ status_result = NoResult
    /\ sort_input = <<>>
    /\ sort_output = NotCalled
    /\ api_provisioned = <<>>
    /\ api_response = NoResponse

provisioner_vars ==
    <<hash_seed, provisioning_requests, calls, submitted, status_result,
      sort_input, sort_output, api_provisioned, api_response>>

\* the values _extract_information can store, lines 76-82, 90-94, 104-108,
\* 132 and 128
WebsiteTypes == {None, "static", "dynamic", "ecommerce", "blog", "api"}

TrafficLevels == {None, "low", "medium", "high"}

DatabaseKinds == {None, "relational", "nosql", "general"}

StorageAmounts == {NoneAmount} \cup {Amount(n) : n \in 0..MaxStorageGb}

InfoUniverse ==
    {[EmptyInfo EXCEPT !.website_type = w, !.expected_traffic = t,
                       !.database_needs = d, !.storage_requirements = s,
                       !.scaling_needs = g, !.availability_requirements = a] :
        w \in WebsiteTypes, t \in TrafficLevels, d \in DatabaseKinds,
        s \in StorageAmounts, g \in {None, "required"}, a \in {None, "high"}}

ResolveInit ==
    /\ hash_seed \in SpecSeeds
    /\ ProvisionerIdle
    /\ conversation = <<>>
    /\ extracted_info \in InfoUniverse
    /\ requirements = NotDetermined
    /\ recommendations = NotGenerated

\* line 40
DetermineCall ==
    /\ requirements = NotDetermined
    /\ requirements' = determine_requirements(extracted_info)
    /\ UNCHANGED <<provisioner_vars, conversation, extracted_info, recommendations>>

\* line 43
GenerateCall ==
    /\ requirements # NotDetermined
    /\ recommendations = NotGenerated
    /\ recommendations' = generate_recommendations(requirements)
    /\ UNCHANGED <<provisioner_vars, conversation, extracted_info, requirements>>

ResolveNext == DetermineCall \/ GenerateCall

ResolveSpec == ResolveInit /\ [][ResolveNext]_vars

\* the requirements have been resolved from the signals
Determined == extracted_info # NotExtracted /\ requirements # NotDetermined

\* the recommendation list has been generated
Generated == Determined /\ recommendations # NotGenerated

\* the compute requirement of the same signals under another traffic level
ComputeUnder(traffic) ==
    determine_compute_requirements([extracted_info EXCEPT !.expected_traffic = traffic])

\* C12: under high traffic the compute requirement has 2 instances and at
\* least max(cores without high traffic, 4) cores and max(memory without high
\* traffic, 32) GB, for every website type (ecommerce gives 4 cores, 32 GB);
\* the database requirement, when there is one, has exactly 2 cores and 2 TB
\* under high traffic whatever the other signals.
C12_ComputeFloorsDatabaseOverwrites ==
    (Determined /\ extracted_info.expected_traffic = "high")
        => /\ requirements.compute.instance_count = 2
           /\ \A other \in TrafficLevels \ {"high"} :
                 /\ requirements.compute.ocpus >= Max(ComputeUnder(other).ocpus, 4)
                 /\ requirements.compute.memory_in_gbs
                        >= Max(ComputeUnder(other).memory_in_gbs, 32)
           /\ extracted_info.website_type = "ecommerce"
                 => /\ requirements.compute.ocpus = 4
                    /\ requirements.compute.memory_in_gbs = 32
           /\ requirements.database # NoneDict
                 => /\ requirements.database.cpu_core_count = 2
                    /\ requirements.database.storage_in_tbs = 2

\* an ecommerce site with high traffic and a database has been resolved
C12_Witness ==
    /\ Determined
    /\ extracted_info.website_type = "ecommerce"
    /\ extracted_info.expected_traffic = "high"
    /\ requirements.compute.ocpus = 4
    /\ requirements.database # NoneDict
    /\ requirements.database.cpu_core_count = 2

\* the requested amount, an unset amount counting as 50
RequestedGb ==
    IF extracted_info.storage_requirements = NoneAmount THEN 50
    ELSE extracted_info.storage_requirements[1]

\* C13: the block volume size is exactly 50 for a static site, max(50,
\* amount, 100) for an ecommerce or dynamic site and max(50, amount)
\* otherwise, an unset amount counting as 50; it is never below 50.
C13_BlockVolumeSize ==
    Determined
        => /\ requirements.storage.block_volume_size_in_gbs =
                 (IF extracted_info.website_type = "static" THEN 50
                  ELSE IF extracted_info.website_type \in {"ecommerce", "dynamic"}
                  THEN Max(Max(50, RequestedGb), 100)
                  ELSE Max(50, RequestedGb))
           /\ requirements.storage.block_volume_size_in_gbs >= 50

\* an ecommerce site asking for more than 100 GB got what it asked for
C13_Witness ==
    /\ Determined
    /\ extracted_info.website_type = "ecommerce"
    /\ extracted_info.storage_requirements # NoneAmount
    /\ extracted_info.storage_requirements[1] > 100
    /\ requirements.storage.block_volume_size_in_gbs
          = extracted_info.storage_requirements[1]

\* the positions of the recommendations of a given name
Named(name) == {k \in 1..Len(recommendations) : recommendations[k].name = name}

\* the load balancer condition of line 212 on the resolved compute requirement
BalancerDue ==
    \/ extracted_info.expected_traffic = "high"
    \/ requirements.compute.instance_count > 1

\* C14: the network requirement attaches a load balancer, with shape bounds
\* 10 and 100, exactly when traffic is high or the resolved compute
\* requirement has more than one instance; it always carries exactly three
\* security rules, for ports 80, 443 and 22, each open to any source; the
\* recommendation list holds a load balancer recommendation, depending on
\* WebsiteVCN, exactly when the load balancer is attached.
C14_LoadBalancerAndRules ==
    Determined
        => /\ requirements.network.load_balancer = BalancerDue
           /\ BalancerDue
                 => /\ requirements.network.load_balancer_min_shape = 10
                    /\ requirements.network.load_balancer_max_shape = 100
           /\ ~BalancerDue
                 => "load_balancer_min_shape" \notin DOMAIN requirements.network
           /\ Len(requirements.network.security_list_rules) = 3
           /\ {rule.port : rule \in Range(requirements.network.security_list_rules)}
                 = {80, 443, 22}
           /\ \A rule \in Range(requirements.network.security_list_rules) :
                 rule.source = "0.0.0.0/0"
           /\ Generated
                 => /\ ({k \in 1..Len(recommendations) :
                           recommendations[k].resource_type = "load_balancer"} # {})
                          = requirements.network.load_balancer
                    /\ \A k \in 1..Len(recommendations) :
                          recommendations[k].resource_type = "load_balancer"
                             => recommendations[k].dependencies = {"WebsiteVCN"}

\* a list with a load balancer has been generated for a static site
C14_Witness ==
    /\ Generated
    /\ requirements.network.load_balancer
    /\ Named("WebsiteLoadBalancer") # {}
    /\ extracted_info.website_type = "static"

\* the autoscaling fields of a compute requirement
AutoscalingKeys == {"autoscaling", "min_instances", "max_instances"}

\* C15: the compute requirement carries autoscaling bounds exactly when the
\* scaling signal is set: min_instances is the resolved instance count and
\* max_instances three times it (2 and 6 under high traffic, 1 and 3
\* otherwise); without the signal no autoscaling field is present (static
\* with low traffic: the minimal shape, 1 instance, no autoscaling).
C15_AutoscalingBounds ==
    Determined
        => /\ extracted_info.scaling_needs = "required"
                 => /\ AutoscalingKeys \subseteq DOMAIN requirements.compute
                    /\ requirements.compute.autoscaling
                    /\ requirements.compute.min_instances
                          = requirements.compute.instance_count
                    /\ requirements.compute.max_instances
                          = 3 * requirements.compute.instance_count
                    /\ <<requirements.compute.min_instances,
                          requirements.compute.max_instances>>
                          = (IF extracted_info.expected_traffic = "high"
                             THEN <<2, 6>> ELSE <<1, 3>>)
           /\ extracted_info.scaling_needs # "required"
                 => AutoscalingKeys \cap DOMAIN requirements.compute = {}
           /\ (/\ extracted_info.website_type = "static"
               /\ extracted_info.expected_traffic = "low"
               /\ extracted_info.scaling_needs # "required")
                 => /\ requirements.compute.shape = "VM.Standard.E2.1.Micro"
                    /\ requirements.compute.instance_count = 1

\* a scaling site under high traffic has been resolved with bounds 2 and 6
C15_Witness ==
    /\ Determined
    /\ extracted_info.scaling_needs = "required"
    /\ extracted_info.expected_traffic = "high"
    /\ requirements.compute.min_instances = 2
    /\ requirements.compute.max_instances = 6

\* C16: the database requirement is absent exactly when database_kind is
\* unset; the recommendation list holds a database recommendation named
\* WebsiteDB, depending on WebsiteVCN, exactly when database_kind is set; the
\* requirement's type is nosql for the kind nosql and autonomous otherwise.
C16_DatabaseWhenKindSet ==
    Determined
        => /\ (requirements.database = NoneDict) = (extracted_info.database_needs = None)
           /\ requirements.database # NoneDict
                 => requirements.database.type =
                       (IF extracted_info.database_needs = "nosql"
                        THEN "nosql" ELSE "autonomous")
           /\ Generated
                 => /\ (Named("WebsiteDB") # {}) = (extracted_info.database_needs # None)
                    /\ \A k \in 1..Len(recommendations) :
                          (recommendations[k].name = "WebsiteDB")
                              = (recommendations[k].resource_type = "database")
                    /\ \A k \in Named("WebsiteDB") :
                          /\ recommendations[k].dependencies = {"WebsiteVCN"}
                          /\ recommendations[k].specifications.type
                                = requirements.database.type

\* a list with an autonomous WebsiteDB has been generated for the kind general
C16_Witness ==
    /\ Generated
    /\ extracted_info.database_needs = "general"
    /\ \E k \in Named("WebsiteDB") :
          recommendations[k].specifications.type = "autonomous"

\* the fixed order of the recommendation names
FixedOrder ==
    <<"WebServer", "WebsiteVCN", "WebsiteLoadBalancer", "WebsiteDB",
      "WebsiteStorage", "WebsiteBucket">>

\* the place of a name in the fixed order, 0 for a name that is not in it
PlaceOf(name) ==
    IF name \in Range(FixedOrder)
    THEN CHOOSE k \in 1..Len(FixedOrder) : FixedOrder[k] = name ELSE 0

\* C17: the recommendation list is in the fixed order WebServer, WebsiteVCN,
\* (load balancer), (WebsiteDB), WebsiteStorage, (bucket), its names are
\* pairwise distinct, and every dependency name of a recommendation is the
\* name of a recommendation earlier in the list.
C17_FixedOrderClosedDependencies ==
    Generated
        => /\ \A k \in 1..Len(recommendations) : PlaceOf(recommendations[k].name) > 0
           /\ \A j, k \in 1..Len(recommendations) :
                 j < k => PlaceOf(recommendations[j].name)
                            < PlaceOf(recommendations[k].name)
           /\ \A name \in {"WebServer", "WebsiteVCN", "WebsiteStorage"} :
                 Named(name) # {}
           /\ \A k \in 1..Len(recommendations) :
                 \A d \in recommendations[k].dependencies :
                     \E j \in 1..(k - 1) : recommendations[j].name = d

\* the full list of six recommendations has been generated
C17_Witness ==
    /\ Generated
    /\ Len(recommendations) = 6
    /\ recommendations[5].name = "WebsiteStorage"
    /\ recommendations[5].dependencies = {"WebServer"}

---------------------------------------------------------------------------
(* AnalyzeSpec: one conversation, analysed by analyze_requirements any     *)
(* number of times, while the recommendations it returned are provisioned  *)
(* under new request ids and the status of the requests is queried.        *)

\* the message contents of AnalyzeSpec: the empty content, a word no pattern
\* matches, and words and phrases of the website, traffic, database and
\* storage groups, one of them with capitals
Contents ==
    {<<>>,                                                                    \* ""
     <<"h", "e", "l", "l", "o">>,                                             \* "hello"
     <<"s", "h", "o", "p">>,                                                  \* "shop"
     <<"s", "t", "a", "t", "i", "c", " ", "s", "i", "t", "e">>,               \* "static site"
     <<"H", "i", "g", "h">>,                                                  \* "High"
     <<"t", "r", "a", "f", "f", "i", "c">>,                                   \* "traffic"
     <<"d", "a", "t", "a", "b", "a", "s", "e">>,                              \* "database"
     <<"n", "o", "s", "q", "l">>,                                             \* "nosql"
     <<"m", "o", "n", "g", "o", "d", "b">>,                                   \* "mongodb"
     <<"s", "q", "l">>,                                                       \* "sql"
     <<"2", "T", "B">>}                                                       \* "2TB"

Conversations == SeqsUpTo(Contents, MaxMessages)

\* no recommendation has two dependencies, so the iteration order of a
\* dependency set decides nothing in AnalyzeSpec
AnalyzeSeeds ==
    {<<"WebServer", "WebsiteVCN", "WebsiteLoadBalancer", "WebsiteDB",
       "WebsiteStorage", "WebsiteBucket">>}

\* the recommendations whose handler raises in a provisioning call
AnalyzeFailing == {{}, {"WebsiteVCN"}}

AnalyzeInit ==
    /\ hash_seed \in AnalyzeSeeds
    /\ ProvisionerIdle
    /\ conversation \in Conversations
    /\ extracted_info = NotExtracted
    /\ requirements = NotDetermined
    /\ recommendations = NotGenerated

\* the mutant of analyze_requirements that reads the store: once a request
\* is stored, the site is taken for an api
analyze_requirements_stateful ==
    /\ extracted_info' =
          IF provisioning_requests = <<>> THEN extract_information(conversation)
          ELSE [extract_information(conversation) EXCEPT !.website_type = "api"]
    /\ requirements' = determine_requirements(extracted_info')
    /\ recommendations' = generate_recommendations(requirements')
    /\ UNCHANGED <<provisioner_vars, conversation>>

\* analyzer.py 24-46
analyze_requirements ==
    /\ extracted_info' = extract_information(conversation)
    /\ requirements' = determine_requirements(extracted_info')
    /\ recommendations' = generate_recommendations(requirements')
    /\ UNCHANGED <<provisioner_vars, conversation>>

\* provisioner.py 32-105: a whole provision_resources call
provision_resources_call(request_id, resources, failing) ==
    /\ provisioning_requests' =
          provision_resources(provisioning_requests, request_id, resources,
                              hash_seed, failing).store
    /\ submitted' = submitted + Len(resources)
    /\ status_result' = NoResult
    /\ UNCHANGED <<analyzer_vars, hash_seed, calls, sort_input, sort_output,
                   api_provisioned, api_response>>

AnalyzeNext ==
    \/ analyze_requirements
    \/ \E r \in CallIds \ DOMAIN provisioning_requests, failing \in AnalyzeFailing :
          /\ recommendations # NotGenerated
          /\ provision_resources_call(r, recommendations, failing)
    \/ \E r \in RequestIds : get_provisioning_status(r)

AnalyzeSpec == AnalyzeInit /\ [][AnalyzeNext]_vars

NoMatch ==
    LET full_text == LowerText(Join(conversation))
    IN  /\ \A k \in 1..Len(website_patterns) :
              ~Search(website_patterns[k].pattern, full_text)
        /\ \A k \in 1..Len(traffic_patterns) :
              ~Search(traffic_patterns[k].pattern, full_text)
        /\ \A k \in 1..Len(region_patterns) :
              ~Search(region_patterns[k].pattern, full_text)
        /\ ~Search(pattern_database, full_text)
        /\ ~Search(pattern_availability, full_text)
        /\ ~Search(pattern_scaling, full_text)
        /\ \A p \in 1..Len(full_text) :
              /\ ~(IsDigit(full_text[p]) /\ StorageUnitAt(full_text, p) # {})
              /\ BudgetDigitsAt(full_text, p) = 0

\* C19: for a conversation in which no pattern of any group matches, the
\* empty message list included, every extracted field is unset and the
\* recommendation list is the baseline: WebServer (general-purpose shape, 1
\* core, 8 GB, 1 instance), WebsiteVCN, WebsiteStorage (50 GB) and the
\* bucket, with no load balancer and no database.
C19_ExtractionMissGivesBaseline ==
    (Generated /\ NoMatch)
        => /\ \A field \in DOMAIN extracted_info :
                 extracted_info[field] =
                    (IF field \in {"storage_requirements", "budget_constraints"}
                     THEN NoneAmount ELSE None)
           /\ [k \in 1..Len(recommendations) |-> recommendations[k].name]
                 = <<"WebServer", "WebsiteVCN", "WebsiteStorage", "WebsiteBucket">>
           /\ recommendations[1].specifications.shape = "VM.Standard.E4.Flex"
           /\ recommendations[1].specifications.ocpus = 1
           /\ recommendations[1].specifications.memory_in_gbs = 8
           /\ recommendations[1].specifications.instance_count = 1
           /\ recommendations[3].specifications.size_in_gbs = 50
           /\ \A k \in 1..Len(recommendations) :
                 recommendations[k].resource_type \notin {"load_balancer", "database"}

\* a conversation of two messages, one of them with words, in which nothing
\* matches has been analysed
C19_Witness ==
    /\ Generated
    /\ NoMatch
    /\ Len(conversation) = 2
    /\ Join(conversation) # <<" ">>

\* the word stands in the lower-cased text as a word of its own
HasWord(text, word) ==
    \E p \in 1..Len(text) :
        /\ LiteralAt(text, p, word)
        /\ p = 1 \/ IsSpace(text[p - 1])
        /\ p + Len(word) > Len(text) \/ IsSpace(text[p + Len(word)])

\* some keyword of the pattern is a word of the text
HasKeyword(text, pattern) ==
    \E alternative \in pattern : HasWord(text, alternative[1])

\* C20: with a database-related term in the text, database_kind is
\* relational when a relational keyword is present, nosql when a nosql
\* keyword is present (so for the word nosql without a relational keyword of
\* its own), and general otherwise; without a database-related term it is
\* unset.
C20_DatabaseKind ==
    Generated
        => LET full_text == LowerText(Join(conversation))
           IN  extracted_info.database_needs =
                  (IF ~Search(pattern_database, full_text) THEN None
                   ELSE IF HasKeyword(full_text, pattern_relational) THEN "relational"
                   ELSE IF HasKeyword(full_text, pattern_nosql) THEN "nosql"
                   ELSE "general")

\* the place of the record named n in an outcome list, 0 when there is none
RecordPlace(n, records) ==
    IF RecordsNamed(n, records) = {} THEN 0
    ELSE CHOOSE k \in RecordsNamed(n, records) :
             \A j \in RecordsNamed(n, records) : k <= j

\* the record of the resource named second stands after the one named first
RecordedBefore(first, second, records) ==
    RecordPlace(second, records) # 0
        => /\ RecordPlace(first, records) # 0
           /\ RecordPlace(first, records) < RecordPlace(second, records)

\* C28: the recommendations of analyze_requirements, handed unchanged to
\* provision_resources, never raise the cycle error and are provisioned in
\* dependency order: the stored outcome records have WebsiteVCN before
\* WebsiteDB and before WebsiteLoadBalancer, and WebServer before
\* WebsiteStorage.
C28_RecommendationsProvisionedInOrder ==
    \A r \in DOMAIN provisioning_requests :
        LET records == provisioning_requests[r].resources
        IN  /\ provisioning_requests[r].status = "completed"
            /\ Len(records) = Len(recommendations)
            /\ RecordedBefore("WebsiteVCN", "WebsiteDB", records)
            /\ RecordedBefore("WebsiteVCN", "WebsiteLoadBalancer", records)
            /\ RecordedBefore("WebServer", "WebsiteStorage", records)

---------------------------------------------------------------------------
(* ExtractSpec: _extract_information applied to conversations whose texts  *)
(* hold several patterns of one group, in either order, and patterns of    *)
(* several groups.                                                         *)

\* the message contents of ExtractSpec: website words of three priorities,
\* two traffic levels (one of them split over two messages), two regions, and
\* a traffic phrase whose word users holds the region pattern us
PriorityContents ==
    {<<>>,                                                                     \* ""
     <<"h", "e", "l", "l", "o">>,                                              \* "hello"
     <<"s", "h", "o", "p">>,                                                   \* "shop"
     <<"s", "t", "a", "t", "i", "c", " ", "s", "i", "t", "e">>,                \* "static site"
     <<"a", "p", "i">>,                                                        \* "api"
     <<"l", "o", "w", " ", "t", "r", "a", "f", "f", "i", "c">>,                \* "low traffic"
     <<"H", "i", "g", "h">>,                                                   \* "High"
     <<"t", "r", "a", "f", "f", "i", "c">>,                                    \* "traffic"
     <<"h", "e", "a", "v", "y", " ", "u", "s", "e", "r", "s">>,                \* "heavy users"
     <<"e", "u">>,                                                             \* "eu"
     <<"a", "s", "i", "a">>}                                                   \* "asia"

PriorityConversations == SeqsUpTo(PriorityContents, MaxMessages)

ExtractInit ==
    /\ hash_seed \in SpecSeeds
    /\ ProvisionerIdle
    /\ conversation \in PriorityConversations
    /\ extracted_info = NotExtracted
    /\ requirements = NotDetermined
    /\ recommendations = NotGenerated

\* analyzer.py 37: extracted_info = self._extract_information(conversation_context)
ExtractCall ==
    /\ extracted_info = NotExtracted
    /\ extracted_info' = extract_information(conversation)
    /\ UNCHANGED <<provisioner_vars, conversation, requirements, recommendations>>

ExtractNext == ExtractCall

ExtractSpec == ExtractInit /\ [][ExtractNext]_vars

Extracted == extracted_info # NotExtracted

\* the places of the patterns of a group that are found in the text
Matching(patterns, low) ==
    {k \in 1..Len(patterns) : Search(patterns[k].pattern, low)}

\* the value of the pattern of highest priority among those found
Winner(patterns, low) ==
    IF Matching(patterns, low) = {} THEN None
    ELSE patterns[CHOOSE k \in Matching(patterns, low) :
                      \A j \in Matching(patterns, low) : k <= j].value

\* the three groups with a priority order and the field each one fills
PriorityGroups ==
    {[field |-> "website_type", patterns |-> website_patterns],
     [field |-> "expected_traffic", patterns |-> traffic_patterns],
     [field |-> "region_preferences", patterns |-> region_patterns]}

\* C21: in the website_type, traffic_level and region groups the pattern of
\* highest priority among those found anywhere in the joined text gives the
\* value, wherever in the text or in whichever message the matches stand,
\* and a group with no match stays unset; the value of a group depends on
\* the matches of its own patterns only, so the same messages in the other
\* order give the same value whenever they give the same matches.
C21_FirstPatternWinsPerGroup ==
    Extracted
        => LET low      == LowerText(Join(conversation))
               swapped  == Reverse(conversation)
               low_swap == LowerText(Join(swapped))
           IN  \A g \in PriorityGroups :
                  /\ extracted_info[g.field] = Winner(g.patterns, low)
                  /\ Matching(g.patterns, low_swap) = Matching(g.patterns, low)
                        => extract_information(swapped)[g.field]
                              = extracted_info[g.field]

\* two region patterns are found, the one of lower priority first in the
\* text and in the other message; the one of higher priority stands inside a
\* word of the traffic phrase, which gives the traffic level as well
C21_Witness ==
    /\ Extracted
    /\ Len(conversation) = 2
    /\ Matching(region_patterns, LowerText(Join(conversation))) = {1, 2}
    /\ Search(pattern_eu, LowerText(conversation[1]))
    /\ ~Search(pattern_us, LowerText(conversation[1]))
    /\ extracted_info.region_preferences = "us"
    /\ extracted_info.expected_traffic = "high"

---------------------------------------------------------------------------
(* ConcSpec: two callers of one ResourceProvisioner, each making one call  *)
(* with its own request_id, the two calls interleaved statement by         *)
(* statement. Each statement on the dict is one step.                      *)

\* the request_id of the calls of a thread
RequestOf(t) == IF t = "t1" THEN "r1" ELSE "r2"

\* the kinds a thread submits: the same names under both request ids, told
\* apart by their kinds
KindsOf(t) == IF t = "t1" THEN {"compute", "database"} ELSE {"storage", "kubernetes"}

\* the resources a thread submits: A, and B that depends on A
ConcUniverse(t) ==
    IF t = "t1"
    THEN {OCIResource("A", "compute", {}), OCIResource("B", "database", {"A"})}
    ELSE {OCIResource("A", "storage", {}), OCIResource("B", "kubernetes", {"A"})}

ConcNext ==
    \E t \in Threads :
        \/ \E b \in SeqsUpTo(ConcUniverse(t), MaxSubmitted - submitted) :
              /\ RequestOf(t) \notin DOMAIN provisioning_requests
              /\ begin(t, RequestOf(t), b)
        \/ sort(t)
        \/ update_progress(t)
        \/ \E fails \in BOOLEAN : provision(t, fails)
        \/ final_status(t)
        \/ final_progress(t)
        \/ leave(t)

ConcSpec == Init /\ [][ConcNext]_vars

\* the step is a step of the call of thread t
StepOf(t) == calls'[t] # calls[t]

\* the entry of the request_id is the same before and after the step, stored
\* or not
EntryUntouched(r) ==
    /\ r \in DOMAIN provisioning_requests <=> r \in DOMAIN provisioning_requests'
    /\ r \in DOMAIN provisioning_requests
          => provisioning_requests'[r] = provisioning_requests[r]

\* C30: requests are isolated by request_id. Under every interleaving of the
\* steps of two calls with distinct request_ids on one provisioner, a step of
\* the call for one request_id never creates, changes or removes the entry of
\* another, and the outcome list of each entry holds only records of
\* resources submitted under its own request_id.
C30_RequestsIsolated ==
    /\ [](\A t \in Threads :
            RequestOf(t) \in DOMAIN provisioning_requests
                => \A k \in 1..Len(provisioning_requests[RequestOf(t)].resources) :
                      provisioning_requests[RequestOf(t)].resources[k].type
                          \in KindsOf(t))
    /\ [][\A t \in Threads :
            StepOf(t) => \A r \in RequestIds \ {RequestOf(t)} : EntryUntouched(r)]_vars

\* both calls are under way: the first has stored one record of two, the
\* second has stored its only record and not yet written completed
C30_Witness ==
    /\ calls["t1"].pc = "provision"
    /\ calls["t1"].i = 1
    /\ calls["t2"].pc = "final_status"
    /\ Len(provisioning_requests["r1"].resources) = 1
    /\ Len(provisioning_requests["r2"].resources) = 1
    /\ provisioning_requests["r1"].status = "in_progress"
    /\ provisioning_requests["r2"].status = "in_progress"

===========================================================================
